---- MODULE Spec2Model ----
(***************************************************************************)
(* A model of the bubbleemotion-search retrieval code: the query cache of  *)
(* flask_app.py, the HTTP scrapers scrape_ddg_html (search_engine.py,      *)
(* simple_ddg_scraper.py), the browser extractor fetch_google_results      *)
(* (flask_app.py) and the orchestrator ddg_search (ddg_scraper.py).        *)
(*                                                                         *)
(* Python strings are sequences of one-character strings, so that strip,   *)
(* lower, startswith, "in", urlparse, parse_qs and unquote are computed    *)
(* character by character, as the library computes them.                   *)
(***************************************************************************)
EXTENDS Integers, Sequences, FiniteSets, TLC

\* ------------------------------------------------------------------------
\* Python values

\* Python's None and a present value, as sequences of length 0 and 1.
None == <<>>
Some(x) == <<x>>

Min(a, b) == IF a <= b THEN a ELSE b

\* ------------------------------------------------------------------------
\* str operations

Whitespace == {" ", "\t", "\n"}

UpperChars ==
    <<"A","B","C","D","E","F","G","H","I","J","K","L","M",
      "N","O","P","Q","R","S","T","U","V","W","X","Y","Z">>

LowerChars ==
    <<"a","b","c","d","e","f","g","h","i","j","k","l","m",
      "n","o","p","q","r","s","t","u","v","w","x","y","z">>

LowerChar(c) ==
    IF \E i \in DOMAIN UpperChars : UpperChars[i] = c
    THEN LowerChars[CHOOSE i \in DOMAIN UpperChars : UpperChars[i] = c]
    ELSE c

\* str.lower()
Lower(s) == [i \in 1..Len(s) |-> LowerChar(s[i])]

\* str.startswith(p)
StartsWith(s, p) == Len(s) >= Len(p) /\ SubSeq(s, 1, Len(p)) = p

\* p in s
Contains(s, p) ==
    \E i \in 1..(Len(s) - Len(p) + 1) : SubSeq(s, i, i + Len(p) - 1) = p

\* s.find(p) + 1: the 1-based position of the first occurrence, 0 when absent
Find(s, p) ==
    IF Contains(s, p)
    THEN CHOOSE i \in 1..(Len(s) - Len(p) + 1) :
            /\ SubSeq(s, i, i + Len(p) - 1) = p
            /\ \A j \in 1..(i - 1) : SubSeq(s, j, j + Len(p) - 1) # p
    ELSE 0

RECURSIVE LStrip(_)
LStrip(s) ==
    IF s # <<>> /\ Head(s) \in Whitespace THEN LStrip(Tail(s)) ELSE s

RECURSIVE RStrip(_)
RStrip(s) ==
    IF s # <<>> /\ s[Len(s)] \in Whitespace
    THEN RStrip(SubSeq(s, 1, Len(s) - 1))
    ELSE s

\* str.strip()
Strip(s) == RStrip(LStrip(s))


\* ------------------------------------------------------------------------
\* urllib.parse

\* The percent escapes of the inputs below and the characters they stand for.
HexPairs ==
    { <<"2","F">>, <<"3","A">>, <<"2","5">>, <<"3","F">>, <<"3","D">>, <<"2","6">> }

HexChar(p) ==
    CASE p = <<"2","F">> -> "/"
      [] p = <<"3","A">> -> ":"
      [] p = <<"2","5">> -> "%"
      [] p = <<"3","F">> -> "?"
      [] p = <<"3","D">> -> "="
      [] p = <<"2","6">> -> "&"

\* urllib.parse.unquote: every %XX escape is replaced by its character, in
\* one pass; anything else is kept.
RECURSIVE unquote(_)
unquote(s) ==
    IF s = <<>> THEN <<>>
    ELSE IF Head(s) = "%" /\ Len(s) >= 3 /\ <<s[2], s[3]>> \in HexPairs
         THEN <<HexChar(<<s[2], s[3]>>)>> \o unquote(SubSeq(s, 4, Len(s)))
         ELSE <<Head(s)>> \o unquote(Tail(s))

\* s.replace("+", " ")
PlusToSpace(s) == [i \in 1..Len(s) |-> IF s[i] = "+" THEN " " ELSE s[i]]

\* The part of s before the first c (all of s when c is absent), and the
\* part after it (empty when c is absent).
Before(s, c) ==
    IF Find(s, <<c>>) = 0 THEN s ELSE SubSeq(s, 1, Find(s, <<c>>) - 1)

After(s, c) ==
    IF Find(s, <<c>>) = 0 THEN <<>> ELSE SubSeq(s, Find(s, <<c>>) + 1, Len(s))

\* urlparse(url).query: what follows the first "?" of the url without its
\* fragment.
urlparse_query(url) == After(Before(url, "#"), "?")

\* parse_qs(qs).get(name, [None])[0]: the fields are split at "&", a field
\* without "=" or with a blank value is dropped, and name and value are
\* decoded ("+" to a space, then unquote). None when no field is left.
RECURSIVE parse_qs_first(_, _)
parse_qs_first(qs, name) ==
    IF qs = <<>> THEN None
    ELSE LET field == Before(qs, "&")
             rest == After(qs, "&")
             key == unquote(PlusToSpace(Before(field, "=")))
             value == unquote(PlusToSpace(After(field, "=")))
         IN  IF Contains(field, <<"=">>) /\ value # <<>> /\ key = name
             THEN Some(value)
             ELSE parse_qs_first(rest, name)

\* ------------------------------------------------------------------------
\* State

VARIABLES
    CACHE,           \* flask_app.CACHE: query -> [results, ts]
    clock,           \* time.time()
    call,            \* the latest /search call: its query, response, source
    last,            \* per query, the response and source of its latest call
    impl,            \* the module whose scrape_ddg_html is running
    max_results,     \* its max_results argument
    endpoint_index,  \* the number of endpoints the loop has finished with
    attempts,        \* per finished endpoint: requests sent and outcome
    parsed,          \* the response examined by the attempt that returned
    ret,             \* the value returned, once the call has returned
    status,          \* "running", "returned" or "raised"
    fg_pc,           \* where fetch_google_results is
    fg_page,         \* the page the browser holds, once it has navigated
    fg_blocked,      \* the block test has matched
    fg_items,        \* items of fetch_google_results
    fg_ret,          \* what fetch_google_results has returned
    fg_timed_out,    \* whether wait_for_selector of the call timed out
    ddg_pc,          \* where ddg_search is
    ddg_calls,       \* the strategies ddg_search has called, in order
    ddg_errors,      \* the exceptions raised inside ddg_search, in order
    ddg_page,        \* the page _ddg_requests_search has received
    ddg_ret,         \* what ddg_search has returned
    h_app,           \* the service whose /search handler has the request
    h_loaded,        \* index.py: the name scrape_ddg_html is bound
    h_pc,            \* "idle", "retrieving" or "responded"
    h_query,         \* query of the handler
    h_calls,         \* the calls of scrape_ddg_html the handler has made
    system_status,   \* index.py: _system_status
    h_response,      \* the response of the handler
    rq,              \* index.py: the request threads inside
                     \* update_system_stats('error'), and the count each
                     \* has read
    error_responses, \* how many 400, 503 and 500 responses /search and
                     \* /classify have sent
    health,          \* the status code of the last /health response
    th,              \* flask_app.py: the request threads inside search
    _BROWSER,        \* flask_app.py: the global browser handle, or None
    _PLAYWRIGHT,     \* flask_app.py: the global driver, or None
    launched,        \* the browser processes launched so far
    bt,              \* the threads that call get_browser and
                     \* fetch_google_results
    _model_loaded,   \* emotion_classifier.py: the global _model_loaded
    cq_pc,           \* "idle" or "called": a call of classify_query
    cq_text,         \* the text of the call
    cq_emotions,     \* what get_distilbert_emotions returns for the text
    cq_result,       \* what the last call of classify_query returned
    ld,              \* the concurrent callers of load_model: where each is
                     \* and what its call returned
    loads,           \* how many times the tokenizer and the model have
                     \* been loaded with from_pretrained
    ex_pc,           \* index.py execute_python: the handler's position
    ex_code,         \* the code of the POST /execute request
    ex_temp_dir,     \* "none", "created" or "removed": tempfile.mkdtemp()
    ex_file,         \* the code written to the script file, or None
    ex_process,      \* the code the subprocess runs, or None
    ex_response,     \* the status of the response, 0 before it
    hz_pc,           \* flask_app.py _humanize: the position of the call
    hz_links,        \* the number of links passed to the call
    hz_left,         \* the mouse moves or hovers still to make
    hz_page,         \* "results" or "target": where the page is
    hz_clicked,      \* whether element.click() of the call succeeded
    auth_json,       \* the file auth.json: "absent", "valid", "stale" or
                     \* "partial" (opened for writing, not yet complete)
    fa,              \* the fetch_google_results calls that share the file
    dd_index,        \* scrape_ddg_html run twice on the same responses:
                     \* the endpoints both runs have been through
    dd_ret,          \* the list the run returned whose writes of
                     \* ddg_debug.html may fail (None while it runs)
    dd_clean         \* the list the run returned whose writes all succeed

cacheVars == <<CACHE, clock, call, last>>

scrapeVars ==
    <<impl, max_results, endpoint_index, attempts, parsed, ret, status>>

fetchVars == <<fg_pc, fg_page, fg_blocked, fg_items, fg_ret, fg_timed_out>>

ddgVars == <<ddg_pc, ddg_calls, ddg_errors, ddg_page, ddg_ret>>

handlerVars ==
    <<h_app, h_loaded, h_pc, h_query, h_calls, system_status, h_response,
      rq, error_responses, health>>

threadVars == <<th>>

browserVars == <<_BROWSER, _PLAYWRIGHT, launched, bt>>
classifyVars ==
    <<_model_loaded, cq_pc, cq_text, cq_emotions, cq_result, ld, loads>>
executeVars ==
    <<ex_pc, ex_code, ex_temp_dir, ex_file, ex_process, ex_response>>
humanizeVars == <<hz_pc, hz_links, hz_left, hz_page, hz_clicked>>
authVars == <<auth_json, fa>>
dumpVars == <<dd_index, dd_ret, dd_clean>>

vars ==
    <<cacheVars, scrapeVars, fetchVars, ddgVars,
      handlerVars, threadVars, browserVars, classifyVars,
      executeVars, humanizeVars, authVars, dumpVars>>

\* The variables a component leaves alone.
notCacheVars ==
    <<scrapeVars, fetchVars, ddgVars, handlerVars,
      threadVars, browserVars, classifyVars, executeVars,
      humanizeVars, authVars, dumpVars>>

notScrapeVars ==
    <<cacheVars, fetchVars, ddgVars, handlerVars,
      threadVars, browserVars, classifyVars, executeVars,
      humanizeVars, authVars, dumpVars>>

notFetchVars ==
    <<cacheVars, scrapeVars, ddgVars, handlerVars,
      threadVars, browserVars, classifyVars, executeVars,
      humanizeVars, authVars, dumpVars>>

notDdgVars ==
    <<cacheVars, scrapeVars, fetchVars, handlerVars,
      threadVars, browserVars, classifyVars, executeVars,
      humanizeVars, authVars, dumpVars>>

notHandlerVars ==
    <<cacheVars, scrapeVars, fetchVars, ddgVars,
      threadVars, browserVars, classifyVars, executeVars,
      humanizeVars, authVars, dumpVars>>

notThreadVars ==
    <<cacheVars, scrapeVars, fetchVars, ddgVars,
      handlerVars, browserVars, classifyVars, executeVars,
      humanizeVars, authVars, dumpVars>>

notBrowserVars ==
    <<cacheVars, scrapeVars, fetchVars, ddgVars,
      handlerVars, threadVars, classifyVars, executeVars,
      humanizeVars, authVars, dumpVars>>

notClassifyVars ==
    <<cacheVars, scrapeVars, fetchVars, ddgVars,
      handlerVars, threadVars, browserVars, executeVars,
      humanizeVars, authVars, dumpVars>>

notExecuteVars ==
    <<cacheVars, scrapeVars, fetchVars, ddgVars,
      handlerVars, threadVars, browserVars, classifyVars,
      humanizeVars, authVars, dumpVars>>

notHumanizeVars ==
    <<cacheVars, scrapeVars, fetchVars, ddgVars,
      handlerVars, threadVars, browserVars, classifyVars,
      executeVars, authVars, dumpVars>>

notAuthVars ==
    <<cacheVars, scrapeVars, fetchVars, ddgVars,
      handlerVars, threadVars, browserVars, classifyVars,
      executeVars, humanizeVars, dumpVars>>

notDumpVars ==
    <<cacheVars, scrapeVars, fetchVars, ddgVars,
      handlerVars, threadVars, browserVars, classifyVars,
      executeVars, humanizeVars, authVars>>

\* ------------------------------------------------------------------------
\* flask_app.py: the query cache and the /search handler

\* A result record {"title", "url", "snippet"}.
Item(t, u, s) == [title |-> t, url |-> u, snippet |-> s]

\* What fetch_google_results can hand back to the handler: a list of
\* records, empty on every failure path.
FetchLists ==
    { <<>>,
      << Item(<<"T","1">>, <<"u","1">>, <<>>) >>,
      << Item(<<"T","2">>, <<"u","2">>, <<"s">>),
         Item(<<"T","1">>, <<"u","1">>, <<>>) >> }

\* The raw q parameter of a request; absent is the default "".
RawQueries ==
    { <<>>, <<" ">>, <<"a">>, <<" ","a","\n">>, <<"b">> }

Queries == { Strip(r) : r \in RawQueries } \ { <<>> }

CACHE_TTL_SECONDS == 10 * 60

\* The number of clock advances a run may hold.
MaxTicks == 3

\* The time a fetch can take, and the time that can pass between requests.
FetchSeconds == {0, 1}
IdleSeconds == {1, CACHE_TTL_SECONDS}

TicksUsed(t) == (t \div CACHE_TTL_SECONDS) + (t % CACHE_TTL_SECONDS)

NoCall == [src |-> "none", resp |-> <<>>]

\* The status of a response made by jsonify(...) alone.
HTTP_OK == 200

\* get_cached with an exclusive bound on the age.
get_cached_exclusive(C, query, t) ==
    IF query \notin DOMAIN C
    THEN [ret |-> None, cache |-> C]
    ELSE IF t - C[query].ts < CACHE_TTL_SECONDS
         THEN [ret |-> Some(C[query].results), cache |-> C]
         ELSE [ret |-> None,
               cache |-> [k \in DOMAIN C \ {query} |-> C[k]]]

\* get_cached without the pop of the expired entry.
get_cached_keep(C, query, t) ==
    IF query \notin DOMAIN C
    THEN [ret |-> None, cache |-> C]
    ELSE IF t - C[query].ts <= CACHE_TTL_SECONDS
         THEN [ret |-> Some(C[query].results), cache |-> C]
         ELSE [ret |-> None, cache |-> C]

\* get_cached(query) read at time t: the value returned and the cache left.
get_cached(C, query, t) ==
    IF query \notin DOMAIN C
    THEN [ret |-> None, cache |-> C]
    ELSE IF t - C[query].ts <= CACHE_TTL_SECONDS
         THEN [ret |-> Some(C[query].results), cache |-> C]
         ELSE [ret |-> None,
               cache |-> [k \in DOMAIN C \ {query} |-> C[k]]]

\* set_cache without the test for an empty result.
set_cache_always(C, query, results, t) ==
    [k \in DOMAIN C \cup {query} |->
        IF k = query THEN [results |-> results, ts |-> t] ELSE C[k]]

\* set_cache(query, results) at time t: the cache left.
set_cache(C, query, results, t) ==
    IF results = <<>>
    THEN C
    ELSE [k \in DOMAIN C \cup {query} |->
            IF k = query THEN [results |-> results, ts |-> t] ELSE C[k]]

\* GET /search?q=raw
search(raw) ==
    LET query == Strip(raw) IN
    IF query = <<>>
    THEN /\ call' = [q |-> query, src |-> "empty_query", resp |-> <<>>,
                     code |-> HTTP_OK, prev |-> NoCall,
                     flip |-> 1 - call.flip]
         /\ UNCHANGED <<CACHE, clock, last>>
    ELSE LET cached == get_cached(CACHE, query, clock) IN
         IF cached.ret # None
         THEN /\ CACHE' = cached.cache
              /\ call' = [q |-> query, src |-> "cache", resp |-> cached.ret[1],
                          code |-> HTTP_OK, prev |-> last[query],
                          flip |-> 1 - call.flip]
              /\ last' = [last EXCEPT ![query] =
                            [src |-> "cache", resp |-> cached.ret[1]]]
              /\ UNCHANGED clock
         ELSE \E results \in FetchLists, d \in FetchSeconds :
                 /\ TicksUsed(clock) + d <= MaxTicks
                 /\ clock' = clock + d
                 /\ CACHE' = set_cache(cached.cache, query, results, clock')
                 /\ call' = [q |-> query, src |-> "fetch", resp |-> results,
                             code |-> HTTP_OK, prev |-> last[query],
                             flip |-> 1 - call.flip]
                 /\ last' = [last EXCEPT ![query] =
                               [src |-> "fetch", resp |-> results]]

Search ==
    /\ \E raw \in RawQueries : search(raw)
    /\ UNCHANGED notCacheVars

\* Time passes between two requests.
Idle ==
    \E d \in IdleSeconds :
        /\ TicksUsed(clock) + TicksUsed(d) <= MaxTicks
        /\ clock' = clock + d
        /\ UNCHANGED <<CACHE, call, last, notCacheVars>>

\* ------------------------------------------------------------------------
\* search_engine.py, simple_ddg_scraper.py: scrape_ddg_html

S_http ==
    <<"h","t","t","p">>

S_http_scheme ==
    <<"h","t","t","p",":","/","/">>

S_https_scheme ==
    <<"h","t","t","p","s",":","/","/">>

S_duckduckgo_com ==
    <<"d","u","c","k","d","u","c","k","g","o",".","c","o","m">>

S_uddg_path ==
    <<"/","l","/","?","u","d","d","g","=">>

S_uddg ==
    <<"u","d","d","g">>

S_bot ==
    <<"b","o","t">>

S_challenge ==
    <<"c","h","a","l","l","e","n","g","e">>

S_anomaly ==
    <<"a","n","o","m","a","l","y">>

S_result ==
    <<"r","e","s","u","l","t">>

S_web_result ==
    <<"w","e","b","-","r","e","s","u","l","t">>

S_results_links ==
    <<"r","e","s","u","l","t","s","_","l","i","n","k","s">>

S_results_links_deep ==
    <<"r","e","s","u","l","t","s","_","l","i","n","k","s","_","d","e","e","p">>

S_links_main ==
    <<"l","i","n","k","s","_","m","a","i","n">>

\* Hrefs of result links.
H_external ==
    <<"h","t","t","p","s",":","/","/","e",".","c","o","/","a">>

H_ddg_wrapper ==
    <<"/","/","d","u","c","k","d","u","c","k","g","o",".","c","o","m","/","l","/","?","u","d","d","g","=","h","t","t","p","s","%","3","A","%","2","F","%","2","F","e",".","c","o","%","2","F","a","&","r","u","t","=","x">>

H_mirror_wrapper ==
    <<"h","t","t","p",":","/","/","r",".","c","o","/","l","/","?","u","d","d","g","=","h","t","t","p","s","%","3","A","%","2","F","%","2","F","e",".","c","o","%","2","F","a">>

H_mirror_relative ==
    <<"h","t","t","p",":","/","/","r",".","c","o","/","l","/","?","u","d","d","g","=","%","2","F","a">>

H_internal ==
    <<"h","t","t","p","s",":","/","/","d","u","c","k","d","u","c","k","g","o",".","c","o","m","/","a","b","o","u","t">>

\* Link texts and the text of a descendant element long enough for a snippet.
T_a ==
    <<"T","i","t","l","e"," ","A">>

T_w ==
    <<" ","T","i","t","l","e"," ","W","\n">>

T_m ==
    <<"T","i","t","l","e"," ","M">>

T_r ==
    <<"T","i","t","l","e"," ","R">>

T_h ==
    <<"T","i","t","l","e"," ","H">>

T_b ==
    <<"T","i","t","l","e"," ","B">>

T_about ==
    <<"A","b","o","u","t"," ","u","s">>

T_short ==
    <<" ","H","i"," "," ">>

T_body ==
    <<"T","h","e"," ","b","o","d","y"," ","t","e","x","t"," ","o","f"," ","a"," ","r","e","s","u","l","t",","," ","l","o","n","g","e","r"," ","t","h","a","n"," ","f","i","f","t","y"," ","c","h","a","r","a","c","t","e","r","s",".">>

T_bot_page ==
    <<"B","o","t"," ","C","h","a","l","l","e","n","g","e">>

Link(h, t) == [href |-> h, text |-> t]

\* A div of a page: its class tokens, its links with an href in document
\* order, and the texts of its descendant div, span and p elements.
Div(c, l, t) == [class |-> c, links |-> l, texts |-> t]

D_plain == Div(<<S_result>>, <<Link(H_external, T_a)>>, <<T_a, T_body>>)

D_wrapper == Div(<<S_result>>, <<Link(H_ddg_wrapper, T_w)>>, <<>>)

D_mirror == Div(<<S_result>>, <<Link(H_mirror_wrapper, T_m)>>, <<>>)

D_mirror_relative == Div(<<S_result>>, <<Link(H_mirror_relative, T_r)>>, <<>>)

D_short ==
    Div(<<S_web_result>>,
        <<Link(H_internal, T_about), Link(H_external, T_short)>>, <<>>)

D_sub == Div(<<S_results_links>>, <<Link(H_external, T_h)>>, <<>>)

D_bare == Div(<<S_links_main>>, <<Link(H_external, T_b)>>, <<T_body>>)

\* The sample divs and page texts. A response names its page by the index
\* of its text and the indices of its divs.
DivList ==
    <<D_plain, D_wrapper, D_mirror, D_mirror_relative, D_short, D_sub, D_bare>>

PageTexts == << <<>>, T_bot_page >>

\* The most divs a sample page holds, and the largest max_results.
MaxContainers == 2
MaxN == 2

RECURSIVE SeqsUpTo(_, _)
SeqsUpTo(S, n) ==
    IF n = 0 THEN { <<>> }
    ELSE SeqsUpTo(S, n - 1) \cup
         { Append(s, x) : s \in { t \in SeqsUpTo(S, n - 1) : Len(t) = n - 1 },
                          x \in S }

\* A page: its text outside the divs, and its divs in document order.
Page(t, ds) == [text |-> t, divs |-> ds]

PageId(t, ds) == [text |-> t, divs |-> ds]

PageOf(id) ==
    Page(PageTexts[id.text], [i \in DOMAIN id.divs |-> DivList[id.divs[i]]])

Pages ==
    { PageId(1, ds) : ds \in SeqsUpTo(DOMAIN DivList, MaxContainers) } \cup
    { PageId(2, <<1>>) }

\* What session.get / requests.get and raise_for_status make of a request.
Responses ==
    { [kind |-> k, page |-> PageId(1, <<>>)] : k \in {"neterr", "httperr"} }
    \cup { [kind |-> "ok", page |-> p] : p \in Pages }

RECURSIVE Concat(_)
Concat(ss) == IF ss = <<>> THEN <<>> ELSE Head(ss) \o Concat(Tail(ss))

\* response.text: the characters of the page, markup included.
DivText(d) ==
    Concat(d.class) \o
    Concat([i \in DOMAIN d.links |-> d.links[i].href \o d.links[i].text]) \o
    Concat(d.texts)

response_text(page) ==
    page.text \o Concat([i \in DOMAIN page.divs |-> DivText(page.divs[i])])

\* The bot detection test of search_engine.py.
bot_detected(page) ==
    LET text == Lower(response_text(page)) IN
    /\ Contains(text, S_bot)
    /\ Contains(text, S_challenge) \/ Contains(text, S_anomaly)

HasClass(d, c) == \E i \in DOMAIN d.class : d.class[i] = c

\* soup.find_all('div', class_=c)
find_all_class(page, c) ==
    LET Test(d) == HasClass(d, c) IN SelectSeq(page.divs, Test)

\* soup.find_all('div', class_='result results_links results_links_deep
\* web-result'): the class attribute is this very string.
find_all_full_class(page) ==
    LET Test(d) ==
            d.class = <<S_result, S_results_links, S_results_links_deep,
                        S_web_result>>
    IN  SelectSeq(page.divs, Test)

\* a or b, of two lists
Or(a, b) == IF a # <<>> THEN a ELSE b

\* The not-internal test of a link: search_engine.py 138 and 152,
\* simple_ddg_scraper.py 64.
outbound(href) ==
    ~Contains(href, S_duckduckgo_com) /\ StartsWith(href, S_http)

\* result_containers of search_engine.py
result_containers(page) ==
    LET by_class ==
            Or(find_all_class(page, S_result),
               Or(find_all_class(page, S_web_result),
                  find_all_full_class(page)))
        Sub(d) == \E i \in DOMAIN d.class : Contains(d.class[i], S_result)
        Heur(d) == \E i \in DOMAIN d.links : outbound(d.links[i].href)
    IN  IF by_class # <<>> THEN by_class
        ELSE IF SelectSeq(page.divs, Sub) # <<>>
             THEN SelectSeq(page.divs, Sub)
             ELSE SelectSeq(page.divs, Heur)

\* result_containers of simple_ddg_scraper.py
simple_result_containers(page) ==
    LET by_class ==
            Or(find_all_class(page, S_result),
               Or(find_all_class(page, S_web_result),
                  find_all_full_class(page)))
        Heur(d) ==
            \E i \in DOMAIN d.links :
                ~Contains(d.links[i].href, S_duckduckgo_com)
    IN  IF by_class # <<>> THEN by_class ELSE SelectSeq(page.divs, Heur)

MinTitleLen == 5
MinSnippetLen == 50

\* The first link of the container that is not internal: None, or the link.
main_link(d) ==
    LET idx == { i \in DOMAIN d.links : outbound(d.links[i].href) } IN
    IF idx = {} THEN None
    ELSE Some(d.links[CHOOSE i \in idx : \A j \in idx : i <= j])

\* The first descendant text longer than MinSnippetLen that is not the title.
snippet_of(d, title) ==
    LET idx == { i \in DOMAIN d.texts :
                    Len(Strip(d.texts[i])) > MinSnippetLen
                    /\ Strip(d.texts[i]) # title } IN
    IF idx = {} THEN <<>>
    ELSE Strip(d.texts[CHOOSE i \in idx : \A j \in idx : i <= j])

\* The url of a record: a redirect href is replaced by its decoded uddg
\* parameter.
resolve_url(href) ==
    IF Contains(href, S_uddg_path)
    THEN LET uddg == parse_qs_first(urlparse_query(href), S_uddg) IN
         IF uddg # None THEN unquote(uddg[1]) ELSE href
    ELSE href

Skipped == [outcome |-> "skipped", item |-> Item(<<>>, <<>>, <<>>)]
Faulted == [outcome |-> "fault", item |-> Item(<<>>, <<>>, <<>>)]

\* One pass of the loop over the containers. urllib_bound tells whether the
\* name urllib is bound where the redirect branch uses it: it is imported
\* in the branch in simple_ddg_scraper.py and nowhere in search_engine.py,
\* where the branch raises NameError, which the except of the loop catches.
parse_container(d, urllib_bound) ==
    LET ml == main_link(d) IN
    IF ml = None THEN Skipped
    ELSE LET title == Strip(ml[1].text)
             href == ml[1].href
         IN  IF title = <<>> \/ Len(title) < MinTitleLen THEN Skipped
             ELSE IF Contains(href, S_uddg_path) /\ ~urllib_bound THEN Faulted
             ELSE IF resolve_url(href) # <<>>
                  THEN [outcome |-> "record",
                        item |-> Item(title, resolve_url(href),
                                      snippet_of(d, title))]
                  ELSE Skipped

\* The slice without its bound.
Slice_unbounded(s, n) == s

\* s[:n] for n >= 0
Slice(s, n) == SubSeq(s, 1, Min(n, Len(s)))

\* The records of the containers, in order.
\* The loop with a fault that ends it: the records collected so far are
\* kept and the containers after the faulting one are not processed.
RECURSIVE Records_abort(_, _)
Records_abort(containers, urllib_bound) ==
    IF containers = <<>> THEN <<>>
    ELSE LET r == parse_container(Head(containers), urllib_bound) IN
         IF r.outcome = "fault" THEN <<>>
         ELSE (IF r.outcome = "record" THEN <<r.item>> ELSE <<>>)
              \o Records_abort(Tail(containers), urllib_bound)

RECURSIVE Records(_, _)
Records(containers, urllib_bound) ==
    IF containers = <<>> THEN <<>>
    ELSE LET r == parse_container(Head(containers), urllib_bound) IN
         (IF r.outcome = "record" THEN <<r.item>> ELSE <<>>)
         \o Records(Tail(containers), urllib_bound)

\* results of search_engine.py after the loop over result_containers
\* An extraction that rejects containers first and caps the records.
extract_filter_first(page, n) ==
    Slice(Records(result_containers(page), FALSE), n)

extract(page, n) == Records(Slice(result_containers(page), n), FALSE)

\* results of simple_ddg_scraper.py
simple_extract(page, n) == Records(Slice(simple_result_containers(page), n), TRUE)

\* The operators above, evaluated once over the sample pages.
BotTable == [p \in Pages |-> bot_detected(PageOf(p))]

\* max_results of the calls: the small values, and the 10 the /search
\* handlers pass.
HandlerMaxResults == 10

MaxResultsValues == 0..MaxN \cup {HandlerMaxResults}

ExtractTable ==
    [p \in Pages |-> [n \in MaxResultsValues |-> extract(PageOf(p), n)]]

SimpleExtractTable ==
    [p \in Pages |->
        [n \in MaxResultsValues |-> simple_extract(PageOf(p), n)]]

\* The endpoints of search_engine.py, tried in list order.
NumEndpoints == 3

\* The requests of an endpoint with a further retry after the second bot
\* detection page.
fetch_response_retry_again(r1, r2) ==
    IF r1.kind # "ok"
    THEN [requests |-> 1, failed |-> TRUE, page |-> r1.page]
    ELSE IF BotTable[r1.page]
         THEN [requests |-> IF r2.kind = "ok" /\ BotTable[r2.page]
                            THEN 3 ELSE 2,
               failed |-> r2.kind # "ok", page |-> r2.page]
         ELSE [requests |-> 1, failed |-> FALSE, page |-> r1.page]

\* Lines 87-108 of search_engine.py: the first request and, after a bot
\* detection page, the second one with the other kind of user agent. r1
\* and r2 are what the two requests bring.
fetch_response(r1, r2) ==
    IF r1.kind # "ok"
    THEN [requests |-> 1, failed |-> TRUE, page |-> r1.page]
    ELSE IF BotTable[r1.page]
         THEN [requests |-> 2, failed |-> r2.kind # "ok", page |-> r2.page]
         ELSE [requests |-> 1, failed |-> FALSE, page |-> r1.page]

\* An attempt: the requests it sent, its outcome ("exception", "bot",
\* "empty" or "records"), whether the extraction ran, the page and the
\* records.
Attempt(n, o, x, p, r) ==
    [requests |-> n, outcome |-> o, examined |-> x, page |-> p, results |-> r]

\* The try block of one endpoint (lines 80-201): the requests, the write of
\* ddg_debug.html, the second bot test and the extraction.
try_endpoint(r1, r2, write_ok, n) ==
    LET f == fetch_response(r1, r2) IN
    IF f.failed \/ ~write_ok
    THEN Attempt(f.requests, "exception", FALSE, f.page, <<>>)
    ELSE IF BotTable[f.page]
         THEN Attempt(f.requests, "bot", FALSE, f.page, <<>>)
         ELSE LET results == ExtractTable[f.page][n] IN
              Attempt(f.requests,
                      IF Len(results) > 0 THEN "records" ELSE "empty",
                      TRUE, f.page, results)

\* The loop with an except clause that raises again.
after_attempt_reraise(outcome) ==
    CASE outcome = "records" -> "return"
      [] outcome = "empty" -> "continue"
      [] outcome = "bot" -> "continue"
      [] outcome = "exception" -> "raise"

\* The loop without the return at the first endpoint that yields records.
after_attempt_no_return(outcome) ==
    CASE outcome = "records" -> "continue"
      [] outcome = "empty" -> "continue"
      [] outcome = "bot" -> "continue"
      [] outcome = "exception" -> "continue"

\* What the loop does with the outcome of an attempt: lines 120, 196-205.
after_attempt(outcome) ==
    CASE outcome = "records" -> "return"
      [] outcome = "empty" -> "continue"
      [] outcome = "bot" -> "continue"
      [] outcome = "exception" -> "continue"

\* One iteration of the loop over the endpoints of search_engine.py, and
\* the return after the last one.
TryEndpoint ==
    /\ impl = "search_engine"
    /\ status = "running"
    /\ endpoint_index < NumEndpoints
    /\ \E r1 \in Responses :
       \E r2 \in (IF r1.kind = "ok" /\ BotTable[r1.page]
                  THEN Responses ELSE {r1}) :
       \E write_ok \in (IF fetch_response(r1, r2).failed
                        THEN {TRUE} ELSE BOOLEAN) :
          LET a == try_endpoint(r1, r2, write_ok, max_results)
              ctl == after_attempt(a.outcome)
          IN  /\ attempts' = Append(attempts, [endpoint |-> endpoint_index,
                                               requests |-> a.requests,
                                               outcome |-> a.outcome])
              /\ endpoint_index' = endpoint_index + 1
              /\ status' = IF ctl = "raise" THEN "raised"
                           ELSE IF ctl = "return"
                                   \/ endpoint_index + 1 = NumEndpoints
                                THEN "returned"
                                ELSE "running"
              /\ ret' = IF ctl = "raise" THEN None
                        ELSE IF ctl = "return" THEN Some(a.results)
                        ELSE IF endpoint_index + 1 = NumEndpoints
                             THEN Some(<<>>)
                             ELSE None
              /\ parsed' = IF a.examined /\ status' = "returned"
                           THEN Some(a.page) ELSE None
    /\ UNCHANGED <<impl, max_results, notScrapeVars>>

\* The try block of simple_ddg_scraper.py (lines 27-110).
simple_try(r1, write_ok, n) ==
    IF r1.kind # "ok" \/ ~write_ok
    THEN Attempt(1, "exception", FALSE, r1.page, <<>>)
    ELSE LET results == SimpleExtractTable[r1.page][n] IN
         Attempt(1, IF Len(results) > 0 THEN "records" ELSE "empty",
                 TRUE, r1.page, results)

\* What simple_ddg_scraper.py does with the outcome: lines 110-114.
simple_after(outcome) ==
    CASE outcome = "exception" -> "return_empty"
      [] OTHER -> "return"

\* scrape_ddg_html of simple_ddg_scraper.py
SimpleScrape ==
    /\ impl = "simple_ddg_scraper"
    /\ status = "running"
    /\ \E r1 \in Responses :
       \E write_ok \in (IF r1.kind = "ok" THEN BOOLEAN ELSE {TRUE}) :
          LET a == simple_try(r1, write_ok, max_results)
              ctl == simple_after(a.outcome)
          IN  /\ attempts' = Append(attempts, [endpoint |-> endpoint_index,
                                               requests |-> a.requests,
                                               outcome |-> a.outcome])
              /\ endpoint_index' = endpoint_index + 1
              /\ status' = IF ctl = "raise" THEN "raised" ELSE "returned"
              /\ ret' = IF ctl = "raise" THEN None
                        ELSE IF ctl = "return" THEN Some(a.results)
                        ELSE Some(<<>>)
              /\ parsed' = IF a.examined /\ status' = "returned"
                           THEN Some(a.page) ELSE None
    /\ UNCHANGED <<impl, max_results, notScrapeVars>>

\* ------------------------------------------------------------------------
\* flask_app.py: fetch_google_results

\* blocks (lines 236-243)
blocks ==
    << <<"S","o","r","r","y",","," ","w","e"," ","a","r","e"," ","r","a","t","e"," ","l","i","m","i","t","i","n","g"," ","r","e","q","u","e","s","t","s">>,
       <<"P","l","e","a","s","e"," ","p","r","o","v","e"," ","y","o","u","'","r","e"," ","n","o","t"," ","a"," ","r","o","b","o","t">>,
       <<"W","e"," ","h","a","v","e"," ","d","e","t","e","c","t","e","d"," ","u","n","u","s","u","a","l"," ","t","r","a","f","f","i","c">>,
       <<"C","A","P","T","C","H","A">>,
       <<"r","a","t","e"," ","l","i","m","i","t">>,
       <<"t","o","o"," ","m","a","n","y"," ","r","e","q","u","e","s","t","s">> >>

S_ad_marker ==
    <<"A","d"," ","V","i","e","w","i","n","g"," ","a","d","s"," ","i","s"," ","p","r","i","v","a","c","y"," ","p","r","o","t","e","c","t","e","d"," ","b","y"," ","D","u","c","k","D","u","c","k","G","o">>

S_ddg_redirect ==
    <<"/","/","d","u","c","k","d","u","c","k","g","o",".","c","o","m","/","l","/","?","u","d","d","g","=">>

S_google_url_path ==
    <<"/","u","r","l","?">>

S_google_url ==
    <<"h","t","t","p","s",":","/","/","w","w","w",".","g","o","o","g","l","e",".","c","o","m","/","u","r","l">>

S_q ==
    <<"q">>

\* str.upper() of a lower-case text
UpperChar(c) ==
    IF \E i \in DOMAIN LowerChars : LowerChars[i] = c
    THEN UpperChars[CHOOSE i \in DOMAIN LowerChars : LowerChars[i] = c]
    ELSE c

Upper(s) == [i \in 1..Len(s) |-> UpperChar(s[i])]

\* Hrefs and titles of browser-side containers.
H_abs_wrapper ==
    <<"h","t","t","p","s",":","/","/","d","u","c","k","d","u","c","k","g","o",".","c","o","m","/","l","/","?","u","d","d","g","=","h","t","t","p","s","%","3","A","%","2","F","%","2","F","e",".","c","o","%","2","F","a">>

H_google ==
    <<"/","u","r","l","?","q","=","h","t","t","p","s",":","/","/","e",".","c","o","/","a","&","s","a","=","U">>

H_relative ==
    <<"/","a">>

T_spaced ==
    <<"T","i","t","l","e"," "," ","\n"," ","S">>

T_ad ==
    <<"T","i","t","l","e"," ","D"," ","A","d"," ","V","i","e","w","i","n","g"," ","a","d","s"," ","i","s"," ","p","r","i","v","a","c","y"," ","p","r","o","t","e","c","t","e","d"," ","b","y"," ","D","u","c","k","D","u","c","k","G","o"," ","m","o","r","e">>

\* A container of the rendered page: whether the title locator finds an
\* element, that element's text and href (None without the attribute), the
\* snippet element's text (None without the element) and whether a locator
\* call on the container raises.
Container(e, t, h, sn, f) ==
    [has_title |-> e, text |-> t, href |-> h, snippet |-> sn, fault |-> f]

F_plain == Container(TRUE, T_a, Some(H_external), Some(T_body), FALSE)

F_wrapper == Container(TRUE, T_w, Some(H_ddg_wrapper), None, FALSE)

F_abs_wrapper == Container(TRUE, T_m, Some(H_abs_wrapper), None, FALSE)

F_google == Container(TRUE, T_spaced, Some(H_google), None, FALSE)

F_relative == Container(TRUE, T_r, Some(H_relative), None, FALSE)

F_ad == Container(TRUE, S_ad_marker, Some(H_external), None, FALSE)

F_ad_tail == Container(TRUE, T_ad, Some(H_external), Some(T_body), FALSE)

F_no_href == Container(TRUE, T_h, None, Some(T_body), FALSE)

F_no_title == Container(FALSE, <<>>, None, None, FALSE)

F_fault == Container(TRUE, T_b, Some(H_external), None, TRUE)

ContainerList ==
    <<F_plain, F_wrapper, F_abs_wrapper, F_google, F_relative, F_ad,
      F_ad_tail, F_no_href, F_no_title, F_fault>>

\* The texts a rendered page can hold outside its containers: nothing, and
\* each block phrase as written, in lower case and in upper case.
RenderedTexts ==
    << <<>> >> \o blocks
    \o [i \in DOMAIN blocks |-> Lower(blocks[i])]
    \o [i \in DOMAIN blocks |-> Upper(blocks[i])]

\* The most containers a rendered page holds.
MaxRendered == 2

Rendered(t, cs) == [text |-> t, containers |-> cs]

RenderedOf(id) ==
    Rendered(RenderedTexts[id.text],
             [i \in DOMAIN id.divs |-> ContainerList[id.divs[i]]])

RenderedPages ==
    { PageId(1, cs) : cs \in SeqsUpTo(DOMAIN ContainerList, MaxRendered) } \cup
    { PageId(t, cs) : t \in DOMAIN RenderedTexts \ {1},
                      cs \in { <<>>, <<1>> } }

ContainerText(c) ==
    c.text \o (IF c.href = None THEN <<>> ELSE c.href[1])
    \o (IF c.snippet = None THEN <<>> ELSE c.snippet[1])

\* page.content()
content(page) ==
    page.text \o
    Concat([i \in DOMAIN page.containers |-> ContainerText(page.containers[i])])

\* any(b in html.lower() for b in blocks)
block_detected(html) ==
    \E i \in DOMAIN blocks : Contains(Lower(html), blocks[i])

\* _extract_target_url
extract_target_url(href) ==
    IF href = <<>> THEN <<>>
    ELSE IF StartsWith(href, S_google_url_path)
            \/ StartsWith(href, S_google_url)
         THEN LET real == parse_qs_first(urlparse_query(href), S_q) IN
              IF real # None THEN real[1] ELSE href
         ELSE href

\* url of lines 292-303
browser_url(link) ==
    IF StartsWith(link, S_ddg_redirect)
    THEN LET uddg == parse_qs_first(urlparse_query(link), S_uddg) IN
         IF uddg # None THEN unquote(uddg[1]) ELSE link
    ELSE extract_target_url(link)

\* str.split(): the words between runs of whitespace
RECURSIVE Words(_)
Words(s) ==
    LET t == LStrip(s) IN
    IF t = <<>> THEN <<>>
    ELSE LET ends == { i \in 1..Len(t) : t[i] \in Whitespace }
             n == IF ends = {} THEN Len(t) + 1
                  ELSE CHOOSE i \in ends : \A j \in ends : i <= j
         IN  <<SubSeq(t, 1, n - 1)>> \o Words(SubSeq(t, n, Len(t)))

\* ' '.join(words)
RECURSIVE JoinSpace(_)
JoinSpace(ws) ==
    IF ws = <<>> THEN <<>>
    ELSE IF Len(ws) = 1 THEN Head(ws)
    ELSE Head(ws) \o <<" ">> \o JoinSpace(Tail(ws))

\* title of lines 305-310
clean_title(title) ==
    LET joined == JoinSpace(Words(title)) IN
    IF Contains(joined, S_ad_marker)
    THEN Strip(SubSeq(joined, 1, Find(joined, S_ad_marker) - 1))
    ELSE joined

\* One pass of the loop over the containers (lines 277-322).
parse_rendered(c) ==
    IF c.fault THEN Faulted
    ELSE LET title == IF c.has_title THEN Some(Strip(c.text)) ELSE None
             link == IF c.has_title THEN c.href ELSE None
             snippet == IF c.snippet = None THEN None
                        ELSE Some(Strip(c.snippet[1]))
         IN  IF title # None /\ title[1] # <<>>
                /\ link # None /\ link[1] # <<>>
             THEN [outcome |-> "record",
                   item |-> Item(clean_title(title[1]), browser_url(link[1]),
                                 snippet)]
             ELSE Skipped

RECURSIVE RenderedItems(_)
RenderedItems(cs) ==
    IF cs = <<>> THEN <<>>
    ELSE LET r == parse_rendered(Head(cs)) IN
         (IF r.outcome = "record" THEN <<r.item>> ELSE <<>>)
         \o RenderedItems(Tail(cs))

\* The operators above, evaluated once over the sample pages.
BlockTable == [p \in RenderedPages |-> block_detected(content(RenderedOf(p)))]

ItemsTable ==
    [p \in RenderedPages |-> RenderedItems(RenderedOf(p).containers)]

\* Lines 165-202: the browser, the context and the page. Any exception goes
\* to the handler of line 335, which returns [].
Launch ==
    /\ fg_pc = "start"
    /\ \E ok \in BOOLEAN :
          IF ok
          THEN fg_pc' = "navigate" /\ UNCHANGED fg_ret
          ELSE fg_pc' = "returned" /\ fg_ret' = Some(<<>>)
    /\ UNCHANGED <<fg_page, fg_blocked, fg_items, fg_timed_out, notFetchVars>>

\* Lines 204-233: page.goto, and the consent button, whose failures are
\* ignored. A failed navigation returns [].
Navigate ==
    /\ fg_pc = "navigate"
    /\ \/ /\ fg_pc' = "returned"
          /\ fg_ret' = Some(<<>>)
          /\ UNCHANGED fg_page
       \/ \E p \in RenderedPages :
             /\ fg_page' = Some(p)
             /\ fg_pc' = "check_blocks"
             /\ UNCHANGED fg_ret
    /\ UNCHANGED <<fg_blocked, fg_items, fg_timed_out, notFetchVars>>

\* Lines 235-247: the block test on page.content().
CheckBlocks ==
    /\ fg_pc = "check_blocks"
    /\ IF BlockTable[fg_page[1]]
       THEN /\ fg_blocked' = TRUE
            /\ fg_pc' = "returned"
            /\ fg_ret' = Some(<<>>)
       ELSE /\ fg_pc' = "wait"
            /\ UNCHANGED <<fg_blocked, fg_ret>>
    /\ UNCHANGED <<fg_page, fg_items, fg_timed_out, notFetchVars>>

\* A wait whose timeout ends the call with [].
after_wait_fatal(appeared) == IF appeared THEN "extract" ELSE "return_empty"

\* Lines 251-264: what the call does after wait_for_selector. The timeout
\* is caught by the handler of line 255, which prints (its read of
\* page.content() in a try of its own) and passes.
after_wait(appeared) == "extract"

\* Lines 249-264: wait_for_selector.
WaitForResults ==
    /\ fg_pc = "wait"
    /\ \E appeared \in BOOLEAN :
          /\ fg_timed_out' = ~appeared
          /\ IF after_wait(appeared) = "extract"
             THEN fg_pc' = "extract" /\ UNCHANGED fg_ret
             ELSE fg_pc' = "returned" /\ fg_ret' = Some(<<>>)
    /\ UNCHANGED <<fg_page, fg_blocked, fg_items, notFetchVars>>

\* Lines 266-324: the loop over the containers.
ExtractItems ==
    /\ fg_pc = "extract"
    /\ fg_items' = ItemsTable[fg_page[1]]
    /\ fg_pc' = "save"
    /\ UNCHANGED <<fg_page, fg_blocked, fg_ret, fg_timed_out, notFetchVars>>

\* Lines 326-333: the save of the storage state, whose failure is caught,
\* and the return.
SaveAndReturn ==
    /\ fg_pc = "save"
    /\ \E saved \in BOOLEAN :
          /\ fg_pc' = "returned"
          /\ fg_ret' = Some(fg_items)
    /\ UNCHANGED <<fg_page, fg_blocked, fg_items, fg_timed_out, notFetchVars>>

\* ------------------------------------------------------------------------
\* ddg_scraper.py: ddg_search and _ddg_requests_search

S_result_web ==
    <<"r","e","s","u","l","t","-","-","w","e","b">>

S_relative_redirect ==
    <<"/","l","/","?","u","d","d","g","=">>

S_privacy ==
    <<"p","r","i","v","a","c","y">>

S_settings ==
    <<"s","e","t","t","i","n","g","s">>

S_about ==
    <<"a","b","o","u","t">>

H_relative_wrapper ==
    <<"/","l","/","?","u","d","d","g","=","h","t","t","p","s","%","3","A","%","2","F","%","2","F","e",".","c","o","%","2","F","a","&","r","u","t","=","x">>

H_settings ==
    <<"h","t","t","p","s",":","/","/","e",".","c","o","/","s">>

T_long ==
    <<"L","o","n","g"," ","r","e","s","u","l","t"," ","t","i","t","l","e">>

T_settings ==
    <<"P","r","i","v","a","c","y"," ","S","e","t","t","i","n","g","s"," ","p","a","g","e">>

D_relative_wrapper ==
    Div(<<S_result>>, <<Link(H_relative_wrapper, T_w)>>, <<>>)

D_relative == Div(<<S_web_result>>, <<Link(H_relative, T_r)>>, <<>>)

D_long == Div(<<S_links_main>>, <<Link(H_external, T_long)>>, <<>>)

D_settings == Div(<<S_links_main>>, <<Link(H_settings, T_settings)>>, <<>>)

D_no_link == Div(<<S_result_web>>, <<>>, <<T_body>>)

\* The sample divs of the pages ddg_search reads: no h2, article or
\* data-result element, and no class on a link.
DdgDivList ==
    <<D_plain, D_wrapper, D_short, D_relative_wrapper, D_relative, D_long,
      D_settings, D_no_link>>

DdgPageOf(id) ==
    Page(<<>>, [i \in DOMAIN id.divs |-> DdgDivList[id.divs[i]]])

DdgPages ==
    { PageId(1, ds) : ds \in SeqsUpTo(DOMAIN DdgDivList, MaxContainers) }

DdgResponses ==
    { [kind |-> k, page |-> PageId(1, <<>>)] : k \in {"neterr", "httperr"} }
    \cup { [kind |-> "ok", page |-> p] : p \in DdgPages }

\* The result_divs of lines 63-68: the first selector that selects anything.
select_result_divs(page) ==
    Or(find_all_class(page, S_result),
       Or(find_all_class(page, S_web_result),
          find_all_class(page, S_result_web)))

MinLinkTextLen == 10

\* The test of lines 78-81 on a link.
looks_like_result(l) ==
    /\ StartsWith(l.href, S_http)
    /\ ~StartsWith(l.href, S_https_scheme \o S_duckduckgo_com)
    /\ Len(Strip(l.text)) > MinLinkTextLen
    /\ ~\E w \in {S_privacy, S_settings, S_about} :
           Contains(Lower(Strip(l.text)), w)

\* soup.find_all('a', href=True)
all_links(page) == Concat([i \in DOMAIN page.divs |-> page.divs[i].links])

\* Lines 108-124 on a title and a link: the record, or no record.
ddg_record(title, link) ==
    LET relative == StartsWith(link, S_relative_redirect)
        uddg == parse_qs_first(urlparse_query(link), S_uddg)
        url == IF relative /\ uddg # None THEN uddg[1] ELSE link
    IN  IF ~relative /\ link # <<>> /\ ~StartsWith(link, S_http) THEN Skipped
        ELSE IF title # <<>> /\ url # <<>>
             THEN [outcome |-> "record", item |-> Item(title, url, <<>>)]
             ELSE Skipped

\* One pass of the loop of lines 87-128 over a container.
ddg_parse_div(d) ==
    IF d.links = <<>> THEN Skipped
    ELSE ddg_record(Strip(d.links[1].text), d.links[1].href)

\* One pass of the loop over a link of the last resort.
ddg_parse_link(l) == ddg_record(Strip(l.text), l.href)

RECURSIVE DdgRecords(_, _)
DdgRecords(elems, is_link) ==
    IF elems = <<>> THEN <<>>
    ELSE LET r == IF is_link THEN ddg_parse_link(Head(elems))
                  ELSE ddg_parse_div(Head(elems))
         IN  (IF r.outcome = "record" THEN <<r.item>> ELSE <<>>)
             \o DdgRecords(Tail(elems), is_link)

\* results of _ddg_requests_search for a page
ddg_extract(page, n) ==
    LET divs == select_result_divs(page) IN
    IF divs # <<>> THEN DdgRecords(Slice(divs, n), FALSE)
    ELSE DdgRecords(Slice(SelectSeq(all_links(page), looks_like_result), n),
                    TRUE)

DdgExtractTable ==
    [p \in DdgPages |-> [n \in 0..MaxN |-> ddg_extract(DdgPageOf(p), n)]]

\* Line 19: the call of _ddg_html_search, a name bound nowhere in the
\* module: NameError, caught at line 20.
DdgHtmlSearch ==
    /\ impl = "ddg_scraper"
    /\ ddg_pc = "start"
    /\ ddg_calls' = Append(ddg_calls, "_ddg_html_search")
    /\ ddg_errors' = Append(ddg_errors, "NameError")
    /\ ddg_pc' = "except"
    /\ UNCHANGED <<ddg_page, ddg_ret, notDdgVars>>

\* Line 22: the call of _ddg_requests_search from the handler. What the
\* function raises (lines 133-135) leaves ddg_search; what it returns is
\* returned.
DdgRequestsSearch ==
    /\ ddg_pc = "except"
    /\ ddg_calls' = Append(ddg_calls, "_ddg_requests_search")
    /\ \E r \in DdgResponses, write_ok \in BOOLEAN :
          IF r.kind = "neterr"
          THEN /\ ddg_errors' = Append(ddg_errors, "ConnectionError")
               /\ ddg_pc' = "raised"
               /\ UNCHANGED <<ddg_page, ddg_ret>>
          ELSE IF r.kind = "httperr"
          THEN /\ ddg_errors' = Append(ddg_errors, "HTTPError")
               /\ ddg_pc' = "raised"
               /\ UNCHANGED <<ddg_page, ddg_ret>>
          ELSE IF ~write_ok
          THEN /\ ddg_errors' = Append(ddg_errors, "OSError")
               /\ ddg_page' = Some(r.page)
               /\ ddg_pc' = "raised"
               /\ UNCHANGED ddg_ret
          ELSE /\ ddg_page' = Some(r.page)
               /\ ddg_ret' = Some(DdgExtractTable[r.page][max_results])
               /\ ddg_pc' = "returned"
               /\ UNCHANGED ddg_errors
    /\ UNCHANGED notDdgVars

\* ------------------------------------------------------------------------
\* index.py, api_server.py: the /search handlers

\* The services and the module whose scrape_ddg_html each imports.
Services == {"index", "api_server"}

ScraperOf(app) ==
    IF app = "index" THEN "search_engine" ELSE "simple_ddg_scraper"

\* A response: its status code, whether its body carries the result list or
\* an error object, and the list.
Response(code, kind, results) ==
    [code |-> code, kind |-> kind, results |-> results]

NoResponse == Response(0, "none", <<>>)

\* update_system_stats of index.py; api_server.py keeps no statistics.
update_system_stats(stats, app, endpoint_type) ==
    IF app # "index" THEN stats
    ELSE IF endpoint_type = "search"
         THEN [stats EXCEPT !.search_requests = @ + 1]
         ELSE [stats EXCEPT !.errors = @ + 1]

\* The head of a /search handler: index.py lines 140-154, api_server.py
\* lines 19-26. The query is read and stripped; an empty one is answered
\* with 400; index.py answers 503 when the import of search_engine failed;
\* otherwise scrape_ddg_html(query, max_results=10) is called.
HandlerReceive ==
    /\ h_pc = "idle"
    /\ \E app \in Services, loaded \in BOOLEAN, raw \in RawQueries :
          LET query == Strip(raw) IN
          /\ app = "api_server" => loaded
          /\ h_app' = app
          /\ h_loaded' = loaded
          /\ h_query' = query
          /\ IF query = <<>>
             THEN /\ h_response' = Response(400, "error", <<>>)
                  /\ system_status' =
                        update_system_stats(system_status, app, "error")
                  /\ h_pc' = "responded"
                  /\ UNCHANGED <<h_calls, impl, max_results>>
             ELSE IF ~loaded
             THEN /\ h_response' = Response(503, "error", <<>>)
                  /\ system_status' =
                        update_system_stats(system_status, app, "error")
                  /\ h_pc' = "responded"
                  /\ UNCHANGED <<h_calls, impl, max_results>>
             ELSE /\ h_pc' = "retrieving"
                  /\ h_calls' = h_calls + 1
                  /\ impl' = ScraperOf(app)
                  /\ max_results' = HandlerMaxResults
                  /\ UNCHANGED <<h_response, system_status>>
    /\ UNCHANGED <<endpoint_index, attempts, parsed, ret, status>>
    /\ UNCHANGED <<rq, error_responses, health>>
    /\ UNCHANGED <<cacheVars, fetchVars, ddgVars,
                   threadVars, browserVars, classifyVars, executeVars,
                   humanizeVars, authVars, dumpVars>>

\* The rest of the handler, once scrape_ddg_html has returned or raised:
\* index.py lines 156-176, api_server.py lines 27-32.
HandlerRespond ==
    /\ h_pc = "retrieving"
    /\ status # "running"
    /\ IF status = "raised"
       THEN /\ h_response' = Response(500, "error", <<>>)
            /\ system_status' =
                  update_system_stats(system_status, h_app, "error")
       ELSE /\ h_response' = Response(HTTP_OK, "results", ret[1])
            /\ system_status' =
                  update_system_stats(system_status, h_app, "search")
    /\ h_pc' = "responded"
    /\ UNCHANGED <<h_app, h_loaded, h_query, h_calls, rq, error_responses,
                   health, notHandlerVars>>

\* ------------------------------------------------------------------------
\* flask_app.py: search on concurrent request threads. app.run serves each
\* request on a thread of its own; the threads share CACHE and take turns
\* between the statements of get_cached and set_cache, which hold no lock.

Threads == {"t1", "t2"}

\* The locals of a thread: where it is, its query, the entry CACHE.get gave
\* it, what CACHE.pop removed, the results it fetched and its response.
Thread(pc, query, entry, popped, results, resp) ==
    [pc |-> pc, query |-> query, entry |-> entry, popped |-> popped,
     results |-> results, resp |-> resp]

IdleThread == Thread("idle", <<>>, None, None, <<>>, None)

\* Lines 396-403: a request with a non-empty query arrives.
ThreadBegin(t) ==
    /\ th[t].pc \in {"idle", "done"}
    /\ \E q \in Queries :
          th' = [th EXCEPT ![t] = Thread("get", q, None, None, <<>>, None)]
    /\ UNCHANGED notThreadVars

\* Line 361: entry = CACHE.get(query), and the return of None of line 363.
ThreadGet(t) ==
    /\ th[t].pc = "get"
    /\ IF th[t].query \in DOMAIN CACHE
       THEN th' = [th EXCEPT ![t].pc = "age",
                             ![t].entry = Some(CACHE[th[t].query])]
       ELSE th' = [th EXCEPT ![t].pc = "fetch"]
    /\ UNCHANGED notThreadVars

\* Lines 364-368: the age of the entry read, and the return of its results.
ThreadAge(t) ==
    /\ th[t].pc = "age"
    /\ IF clock - th[t].entry[1].ts <= CACHE_TTL_SECONDS
       THEN th' = [th EXCEPT ![t] = Thread("done", th[t].query, None, None,
                                           <<>>, Some(th[t].entry[1].results))]
       ELSE th' = [th EXCEPT ![t].pc = "pop"]
    /\ UNCHANGED notThreadVars

\* Line 371: CACHE.pop(query, None) removes what the key holds now.
ThreadPop(t) ==
    /\ th[t].pc = "pop"
    /\ th' = [th EXCEPT ![t].pc = "fetch",
                        ![t].popped = IF th[t].query \in DOMAIN CACHE
                                      THEN Some(CACHE[th[t].query])
                                      ELSE None]
    /\ CACHE' = [k \in DOMAIN CACHE \ {th[t].query} |-> CACHE[k]]
    /\ UNCHANGED <<clock, call, last, scrapeVars, fetchVars, ddgVars,
                   handlerVars, browserVars, classifyVars, executeVars,
                   humanizeVars, authVars, dumpVars>>

\* Line 409: fetch_google_results(query).
ThreadFetch(t) ==
    /\ th[t].pc = "fetch"
    /\ \E results \in FetchLists, d \in FetchSeconds :
          /\ TicksUsed(clock) + d <= MaxTicks
          /\ clock' = clock + d
          /\ th' = [th EXCEPT ![t].pc = "set", ![t].results = results]
    /\ UNCHANGED <<CACHE, call, last, scrapeVars, fetchVars, ddgVars,
                   handlerVars, browserVars, classifyVars, executeVars,
                   humanizeVars, authVars, dumpVars>>

\* Lines 410-412: set_cache(query, results) and the response.
ThreadSet(t) ==
    /\ th[t].pc = "set"
    /\ CACHE' = set_cache(CACHE, th[t].query, th[t].results, clock)
    /\ th' = [th EXCEPT ![t] = Thread("done", th[t].query, None, None, <<>>,
                                      Some(th[t].results))]
    /\ UNCHANGED <<clock, call, last, scrapeVars, fetchVars, ddgVars,
                   handlerVars, browserVars, classifyVars, executeVars,
                   humanizeVars, authVars, dumpVars>>

\* ------------------------------------------------------------------------
\* flask_app.py: get_browser and the browser processes. A thread calls
\* get_browser or fetch_google_results, one call after another; the threads
\* take turns between the test of line 24 and the launch of line 29, which
\* hold no lock.

\* The most browser processes launched in a run.
MaxLaunches == 5

\* A browser process: the function that launched it, and whether it is
\* still running and connected.
Process(by, alive) == [by |-> by, alive |-> alive]

\* A calling thread: where it is, the handle get_browser returned to it
\* last, and the process its fetch_google_results uses.
Caller(pc, handle, using) == [pc |-> pc, handle |-> handle, using |-> using]

\* A handle that always reports a connection.
is_connected_always(b) == TRUE

\* _BROWSER.is_connected()
is_connected(b) == launched[b].alive

\* Line 20: a thread calls get_browser; it holds no result of the call yet.
GetBrowserCall(t) ==
    /\ bt[t].pc = "idle"
    /\ bt' = [bt EXCEPT ![t].pc = "test", ![t].handle = None]
    /\ UNCHANGED <<_BROWSER, _PLAYWRIGHT, launched, notBrowserVars>>

\* Line 24: the test of the stored handle; line 35 returns it when it is
\* usable.
GetBrowserTest(t) ==
    /\ bt[t].pc = "test"
    /\ IF _BROWSER = None \/ ~is_connected(_BROWSER[1])
       THEN bt' = [bt EXCEPT ![t].pc = "create"]
       ELSE bt' = [bt EXCEPT ![t].pc = "idle", ![t].handle = _BROWSER]
    /\ UNCHANGED <<_BROWSER, _PLAYWRIGHT, launched, notBrowserVars>>

\* Lines 26-27: the driver is started when there is none.
GetBrowserStart(t) ==
    /\ bt[t].pc = "create"
    /\ _PLAYWRIGHT' = IF _PLAYWRIGHT = None THEN Some(t) ELSE _PLAYWRIGHT
    /\ bt' = [bt EXCEPT ![t].pc = "launch"]
    /\ UNCHANGED <<_BROWSER, launched, notBrowserVars>>

\* Lines 29-35: the launch, the assignment to _BROWSER and the return. A
\* launch that fails raises out of get_browser.
GetBrowserLaunch(t) ==
    /\ bt[t].pc = "launch"
    /\ \/ /\ Len(launched) < MaxLaunches
          /\ launched' = Append(launched, Process("get_browser", TRUE))
          /\ _BROWSER' = Some(Len(launched) + 1)
          /\ bt' = [bt EXCEPT ![t].pc = "idle",
                              ![t].handle = Some(Len(launched) + 1)]
       \/ /\ bt' = [bt EXCEPT ![t].pc = "idle", ![t].handle = None]
          /\ UNCHANGED <<_BROWSER, launched>>
    /\ UNCHANGED <<_PLAYWRIGHT, notBrowserVars>>

\* A browser process of get_browser crashes or loses its connection.
Disconnect ==
    /\ \E b \in DOMAIN launched :
          /\ launched[b].by = "get_browser"
          /\ launched[b].alive
          /\ launched' = [launched EXCEPT ![b].alive = FALSE]
    /\ UNCHANGED <<_BROWSER, _PLAYWRIGHT, bt, notBrowserVars>>

\* cleanup_browser (lines 340-356), called by thread t: _BROWSER.close() and
\* _BROWSER = None, then _PLAYWRIGHT.stop() and _PLAYWRIGHT = None; an
\* exception of close or of stop is caught and skips the assignment after
\* it. A driver that stops ends the browser processes it launched.
CleanupBrowser(t) ==
    /\ bt[t].pc = "idle"
    /\ \E close_raises \in BOOLEAN, stop_raises \in BOOLEAN :
          LET closed == _BROWSER # None /\ ~close_raises
              stopped == _PLAYWRIGHT # None /\ ~stop_raises
          IN  /\ _BROWSER' = IF closed THEN None ELSE _BROWSER
              /\ _PLAYWRIGHT' = IF stopped THEN None ELSE _PLAYWRIGHT
              /\ launched' =
                    [b \in DOMAIN launched |->
                        IF (closed /\ b = _BROWSER[1])
                           \/ (stopped /\ launched[b].by = "get_browser")
                        THEN Process(launched[b].by, FALSE)
                        ELSE launched[b]]
    /\ UNCHANGED <<bt, notBrowserVars>>

\* Lines 165-169 of fetch_google_results: `with sync_playwright() as p`
\* and p.chromium.launch start a driver and a browser process of the call's
\* own; get_browser is not called.
FetchLaunch(t) ==
    /\ bt[t].pc = "idle"
    /\ Len(launched) < MaxLaunches
    /\ launched' = Append(launched, Process("fetch_google_results", TRUE))
    /\ bt' = [bt EXCEPT ![t].pc = "fetching",
                        ![t].using = Some(Len(launched) + 1)]
    /\ UNCHANGED <<_BROWSER, _PLAYWRIGHT, notBrowserVars>>

\* The end of the with block: the driver of the call stops and its browser
\* process ends with it.
FetchClose(t) ==
    /\ bt[t].pc = "fetching"
    /\ launched' = [launched EXCEPT ![bt[t].using[1]].alive = FALSE]
    /\ bt' = [bt EXCEPT ![t].pc = "idle", ![t].using = None]
    /\ UNCHANGED <<_BROWSER, _PLAYWRIGHT, notBrowserVars>>

\* ------------------------------------------------------------------------
\* emotion_classifier.py: classify_query
\*
\* The scores are reals with four decimals, held as integers: Unit is 1.0.
\* Every weight and threshold of the code has at most two decimals.

Unit == 10000

\* The real h / 100.
Real(h) == h * 100

\* x * (h / 100)
Times(x, h) == (x * h) \div 100

Max(a, b) == IF a >= b THEN a ELSE b

Abs(x) == IF x < 0 THEN 0 - x ELSE x

MaxEmojis == 6

MaxSignals == 1

\* The length of a run of one repeated character in the sample texts
\* ("sooo", "!!!", "...").
RunLen == 3

WordCounts == {"upto3", "upto10", "upto20", "over20"}

\* A text, by what calculate_psychological_scores reads of it: the
\* occurrences of positive and negative emojis, the distinct positive and
\* negative expressions, the exclamation marks (0 none, 1 ends with "!",
\* 2 holds "!!", 3 holds "!!!"), the dots (0 none, 1 holds "...", 2 ends
\* with "..."), the runs of a repeated letter, the words in capitals, the
\* question marks (0 none, 1 one "?", 2 one "??") and the number of words.
Texts ==
    [pos_emoji : {0, 1, MaxEmojis}, pos_expr : 0..MaxSignals, bang : 0..3,
     neg_emoji : {0, 1, MaxEmojis}, neg_expr : 0..MaxSignals, dots : 0..2,
     runs : {0, 1}, caps : {0, 1}, marks : 0..2,
     words : WordCounts]

NoText ==
    [pos_emoji |-> 0, pos_expr |-> 0, bang |-> 0, neg_emoji |-> 0,
     neg_expr |-> 0, dots |-> 0, runs |-> 0, caps |-> 0, marks |-> 0,
     words |-> "upto3"]

\* The matches of r'(.)\1{2,}' in the text: the runs of a letter, "!!!" and
\* "...".
RepetitionMatches(t) ==
    t.runs + (IF t.bang = 3 THEN 1 ELSE 0) + (IF t.dots >= 1 THEN 1 ELSE 0)

positive_score(t) ==
    Real(200) * t.pos_emoji + Real(150) * t.pos_expr
    + (CASE t.bang = 3 -> Real(120)
         [] t.bang = 2 -> Real(80)
         [] t.bang = 1 -> Real(50)
         [] OTHER -> 0)

negative_score(t) ==
    Real(200) * t.neg_emoji + Real(150) * t.neg_expr
    + (IF t.dots >= 1 THEN Real(80) ELSE 0)
    + (IF t.dots = 2 THEN Real(50) ELSE 0)

intensity_score(t) ==
    RepetitionMatches(t) * (Real(100) + Times(RunLen * Unit, 10))
    + t.caps * Real(150)
    + (IF t.bang >= 2 THEN Real(120) ELSE 0)
    + (IF t.marks = 2 THEN Real(100) ELSE 0)
    + (IF t.dots >= 1 THEN Real(80) ELSE 0)

engagement_score(t) ==
    (IF t.marks >= 1 THEN Real(80) ELSE 0)
    + (CASE t.words = "over20" -> Real(200)
         [] t.words = "upto20" -> Real(100)
         [] t.words = "upto3" -> 0 - Real(50)
         [] OTHER -> 0)

calculate_psychological_scores(t) ==
    LET total_activity ==
            positive_score(t) + negative_score(t) + intensity_score(t)
            + Abs(engagement_score(t))
    IN  [positive_valence |-> positive_score(t),
         negative_valence |-> negative_score(t),
         high_arousal |-> intensity_score(t),
         high_engagement |-> engagement_score(t),
         neutral_regulation |-> Max(0, Unit - Times(total_activity, 10))]

\* The percentages get_distilbert_emotions returns, a dict from emotion to
\* a real between 0 and 100: no emotion, every emotion at 0, joy at 100,
\* anger at 35.5, and sadness at 100 with fear at 62.
EmotionKeys == {"joy", "sadness", "anger", "fear"}

EmotionSamples ==
    { [k \in {} |-> 0],
      [k \in EmotionKeys |-> 0],
      [k \in {"joy"} |-> 100 * Unit],
      [k \in EmotionKeys |-> IF k = "anger" THEN Real(3550) ELSE 0],
      [k \in {"sadness", "fear"} |->
          IF k = "sadness" THEN 100 * Unit ELSE 62 * Unit] }

\* classify_query, lines 977-987: the scores raised by the percentages.
enhance(s, e) ==
    LET has(k) == k \in DOMAIN e
        pv == IF has("joy")
                THEN Max(s.positive_valence, e["joy"] \div 10)
                ELSE s.positive_valence
        nv1 == IF has("sadness")
                 THEN Max(s.negative_valence, e["sadness"] \div 10)
                 ELSE s.negative_valence
        nv2 == IF has("anger") THEN Max(nv1, e["anger"] \div 10) ELSE nv1
        ha1 == IF has("anger")
                 THEN Max(s.high_arousal, e["anger"] \div 10)
                 ELSE s.high_arousal
        nv3 == IF has("fear") THEN Max(nv2, e["fear"] \div 10) ELSE nv2
        ha2 == IF has("fear") THEN Max(ha1, e["fear"] \div 10) ELSE ha1
    IN  [s EXCEPT !.positive_valence = pv, !.negative_valence = nv3,
                  !.high_arousal = ha2]

State(name, confidence) == [primary_state |-> name, confidence |-> confidence]

determine_psychological_state(s) ==
    LET pv == s.positive_valence
        nv == s.negative_valence
        ha == s.high_arousal
        he == s.high_engagement
        nr == s.neutral_regulation
    IN  CASE pv > Real(200) /\ ha > Real(100) ->
                State("high_positive_arousal",
                      Min(Real(95), Real(50) + Times(pv, 10)))
          [] pv > Real(200) ->
                State("positive_valence",
                      Min(Real(90), Real(40) + Times(pv, 10)))
          [] nv > Real(200) /\ ha > Real(100) ->
                State("high_negative_arousal",
                      Min(Real(95), Real(50) + Times(nv, 10)))
          [] nv > Real(200) ->
                State("negative_valence",
                      Min(Real(90), Real(40) + Times(nv, 10)))
          [] ha > Real(150) ->
                State("high_intensity_state",
                      Min(Real(90), Real(30) + Times(ha, 8)))
          [] he > Real(200) ->
                State("high_engagement",
                      Min(Real(85), Real(40) + Times(he, 5)))
          [] he < 0 - Real(30) /\ pv < Real(50) /\ ha < Real(50) ->
                State("low_engagement_shutdown",
                      Min(Real(80), Real(60) + Times(Abs(he), 20)))
          [] he < 0 - Real(30) ->
                State("brief_communication",
                      Min(Real(70), Real(40) + Times(Abs(he), 15)))
          [] nr > Real(70) -> State("neutral_regulation", nr)
          [] Abs(pv - nv) < Real(100) /\ (pv > Real(100) \/ nv > Real(100)) ->
                State("mixed_valence",
                      Min(Real(75), Real(30) + Times(pv + nv, 5)))
          [] OTHER -> State("neutral_regulation", Max(Real(50), nr))

\* classify_query, lines 993-998: the profile before it is clamped.
raw_profile(s) ==
    [k \in {"valence", "arousal", "engagement", "regulation"} |->
        CASE k = "valence" -> (s.positive_valence - s.negative_valence) \div 10
          [] k = "arousal" -> s.high_arousal \div 10
          [] k = "engagement" -> s.high_engagement \div 10
          [] OTHER -> s.neutral_regulation]

clamp_none(x) == x

clamp(x) == Max(0 - Unit, Min(Unit, x))

Result(path, state, confidence, profile) ==
    [path |-> path, primary_state |-> state, confidence |-> confidence,
     psychological_profile |-> profile]

\* The three values classify_query returns.
model_unavailable ==
    Result("model_unavailable", "neutral_regulation", Unit,
           [k \in {"valence", "arousal", "engagement"} |-> 0])

analysis_failed ==
    Result("analysis_failed", "neutral_regulation", Unit,
           [k \in {"valence", "arousal", "engagement", "regulation"} |->
               IF k = "regulation" THEN Unit ELSE 0])

analysis(t, e) ==
    LET s == enhance(calculate_psychological_scores(t), e)
        d == determine_psychological_state(s)
        p == raw_profile(s)
    IN  Result("normal", d.primary_state, d.confidence,
               [k \in DOMAIN p |-> clamp(p[k])])

\* load_model: what it returns and what it leaves in _model_loaded, when the
\* DistilBERT model loads ("distilbert") and when loading raises and the
\* classifier falls back to the rules ("rule_based").
LoadOutcomes == {"distilbert", "rule_based"}

load_model(loaded, outcome) ==
    CASE loaded -> [returns |-> TRUE, loaded |-> loaded]
      [] outcome = "distilbert" -> [returns |-> TRUE, loaded |-> TRUE]
      [] OTHER -> [returns |-> TRUE, loaded |-> TRUE]

\* A caller passes the text to classify_query.
ClassifyCall ==
    /\ cq_pc = "idle"
    /\ cq_pc' = "called"
    /\ cq_result' = None
    /\ UNCHANGED <<_model_loaded, cq_text, cq_emotions, ld, loads,
                   notClassifyVars>>

\* classify_query runs to its return. The analysis may raise.
ClassifyQuery ==
    /\ cq_pc = "called"
    /\ \E outcome \in LoadOutcomes, raises \in BOOLEAN :
          LET l == IF _model_loaded
                     THEN [returns |-> TRUE, loaded |-> TRUE]
                     ELSE load_model(_model_loaded, outcome)
          IN  /\ _model_loaded' = l.loaded
              /\ cq_result' =
                    Some(IF ~_model_loaded /\ ~l.returns
                           THEN model_unavailable
                           ELSE IF raises
                                  THEN analysis_failed
                                  ELSE analysis(cq_text, cq_emotions))
    /\ cq_pc' = "idle"
    /\ UNCHANGED <<cq_text, cq_emotions, ld, loads, notClassifyVars>>

\* ------------------------------------------------------------------------
\* index.py: execute_python, the handler of POST /execute

dangerous_patterns ==
    << <<"i","m","p","o","r","t"," ","o","s">>,
       <<"i","m","p","o","r","t"," ","s","u","b","p","r","o","c","e","s","s">>,
       <<"i","m","p","o","r","t"," ","s","y","s">>,
       <<"_","_","i","m","p","o","r","t","_","_">>,
       <<"e","v","a","l","(">>,
       <<"e","x","e","c","(">>,
       <<"c","o","m","p","i","l","e","(">>,
       <<"o","p","e","n","(">>,
       <<"f","i","l","e","(">>,
       <<"i","n","p","u","t","(">>,
       <<"r","a","w","_","i","n","p","u","t","(">>,
       <<"s","o","c","k","e","t">>,
       <<"u","r","l","l","i","b">>,
       <<"r","e","q","u","e","s","t","s">>,
       <<"h","t","t","p">>,
       <<"r","m"," ","-","r","f">>,
       <<"s","u","d","o">>,
       <<"c","h","m","o","d">>,
       <<"c","h","o","w","n">> >>

\* Code with no listed pattern, and two near misses of a pattern.
SafeFragments ==
    { <<"p","r","i","n","t","(","1",")">>,
      <<"i","m","p","o","r","t"," "," ","o","s">>,
      <<"e","v"," ","a","l","(">> }

\* A pattern with every second letter in capitals.
MixedCase(p) ==
    [i \in 1..Len(p) |-> IF i % 2 = 1 THEN UpperChar(p[i]) ELSE p[i]]

\* Each pattern as listed, in capitals and in mixed case.
DangerousFragments ==
    UNION { {dangerous_patterns[i], Upper(dangerous_patterns[i]),
             MixedCase(dangerous_patterns[i])} :
            i \in DOMAIN dangerous_patterns }

MaxSafeFragments == 1

SafeCodes == { Concat(ss) : ss \in SeqsUpTo(SafeFragments, MaxSafeFragments) }

\* The codes of the requests: safe code, and a fragment of a pattern between
\* safe code. The empty code stands for a request without a code as well.
Codes ==
    SafeCodes \cup
    { a \o d \o b : a \in SafeCodes, b \in SafeCodes, d \in DangerousFragments }

\* lines 364-365: the first listed pattern that is in code.lower(), as a
\* set of at most one index.
detected_case_sensitive(code) ==
    { i \in DOMAIN dangerous_patterns :
        /\ Contains(code, dangerous_patterns[i])
        /\ \A j \in 1..(i - 1) : ~Contains(code, dangerous_patterns[j]) }

detected(code) ==
    { i \in DOMAIN dangerous_patterns :
        /\ Contains(Lower(code), dangerous_patterns[i])
        /\ \A j \in 1..(i - 1) : ~Contains(Lower(code), dangerous_patterns[j]) }

\* The handler reads the code and answers 400 or 403, or goes on to run it.
ExecuteReceive ==
    /\ ex_pc = "received"
    /\ IF ex_code = <<>>
         THEN ex_response' = 400 /\ ex_pc' = "responded"
         ELSE IF detected(ex_code) # {}
                THEN ex_response' = 403 /\ ex_pc' = "responded"
                ELSE ex_pc' = "accepted" /\ UNCHANGED ex_response
    /\ UNCHANGED <<ex_code, ex_temp_dir, ex_file, ex_process, notExecuteVars>>

\* line 373: temp_dir = tempfile.mkdtemp()
ExecuteMkdtemp ==
    /\ ex_pc = "accepted"
    /\ ex_temp_dir' = "created"
    /\ ex_pc' = "in_dir"
    /\ UNCHANGED <<ex_code, ex_file, ex_process, ex_response, notExecuteVars>>

\* lines 378-380: the code is written to the script file; an error of the
\* write ends the request with 500 and the directory removed.
ExecuteWrite ==
    /\ ex_pc = "in_dir"
    /\ \E raises \in BOOLEAN :
          IF raises
            THEN /\ ex_response' = 500
                 /\ ex_temp_dir' = "removed"
                 /\ ex_pc' = "responded"
                 /\ UNCHANGED ex_file
            ELSE /\ ex_file' = Some(ex_code)
                 /\ ex_pc' = "written"
                 /\ UNCHANGED <<ex_response, ex_temp_dir>>
    /\ UNCHANGED <<ex_code, ex_process, notExecuteVars>>

\* lines 383-389: subprocess.Popen([sys.executable, code_file], ...)
ExecutePopen ==
    /\ ex_pc = "written"
    /\ \E raises \in BOOLEAN :
          IF raises
            THEN /\ ex_response' = 500
                 /\ ex_temp_dir' = "removed"
                 /\ ex_pc' = "responded"
                 /\ UNCHANGED ex_process
            ELSE /\ ex_process' = ex_file
                 /\ ex_pc' = "running"
                 /\ UNCHANGED <<ex_response, ex_temp_dir>>
    /\ UNCHANGED <<ex_code, ex_file, notExecuteVars>>

\* lines 391-435: the process ends within 30 seconds (200), or it is killed
\* (408), or collecting the files raises (500); the directory is removed.
ExecuteRespond ==
    /\ ex_pc = "running"
    /\ \E code \in {200, 408, 500} : ex_response' = code
    /\ ex_temp_dir' = "removed"
    /\ ex_pc' = "responded"
    /\ UNCHANGED <<ex_code, ex_file, ex_process, notExecuteVars>>

\* ------------------------------------------------------------------------
\* flask_app.py: _humanize
\*
\* Every call on the page can raise. An exception in the hover loop is
\* caught there (line 127), one in the click block at line 148, any other
\* at line 151; after each of the last two the function returns.

\* The most links a call is given.
MaxLinks == 3

\* random.randint(3, 6) mouse moves, random.randint(2, 4) hovers.
MoveCounts == 3..6

HoverCounts == 2..4

\* hover_candidates = links[:8]
HoverPool == 8

\* _humanize(page, links) is called with the page on the results.
HumanizeCall ==
    /\ hz_pc = "idle"
    /\ \E n \in 0..MaxLinks, k \in MoveCounts :
          /\ hz_links' = n
          /\ hz_left' = k
    /\ hz_pc' = "moves"
    /\ hz_page' = "results"
    /\ hz_clicked' = FALSE
    /\ UNCHANGED notHumanizeVars

\* Lines 103-110: page.viewport_size and one pass of the loop of mouse
\* moves.
HumanizeMove ==
    /\ hz_pc = "moves"
    /\ hz_left > 0
    /\ \E raises \in BOOLEAN :
          IF raises
          THEN hz_pc' = "returned" /\ UNCHANGED hz_left
          ELSE /\ hz_left' = hz_left - 1
               /\ hz_pc' = IF hz_left = 1 THEN "scroll" ELSE "moves"
    /\ UNCHANGED <<hz_links, hz_page, hz_clicked, notHumanizeVars>>

\* Lines 113-119: the scroll, and the choice of the hovers.
HumanizeScroll ==
    /\ hz_pc = "scroll"
    /\ \E raises \in BOOLEAN, k \in HoverCounts :
          IF raises
          THEN hz_pc' = "returned" /\ UNCHANGED hz_left
          ELSE /\ hz_left' = Min(k, Min(hz_links, HoverPool))
               /\ hz_pc' = IF hz_left' = 0 THEN "click" ELSE "hover"
    /\ UNCHANGED <<hz_links, hz_page, hz_clicked, notHumanizeVars>>

\* Lines 121-128: one pass of the hover loop; its exceptions are caught.
HumanizeHover ==
    /\ hz_pc = "hover"
    /\ \E raises \in BOOLEAN :
          /\ hz_left' = hz_left - 1
          /\ hz_pc' = IF hz_left = 1 THEN "click" ELSE "hover"
    /\ UNCHANGED <<hz_links, hz_page, hz_clicked, notHumanizeVars>>

\* Lines 131-136: without candidates the function returns; otherwise the
\* target is located and, when it is found, clicked. A click that succeeds
\* takes the page to the target.
HumanizeClick ==
    /\ hz_pc = "click"
    /\ IF hz_links = 0
       THEN hz_pc' = "returned" /\ UNCHANGED <<hz_page, hz_clicked>>
       ELSE \E found \in BOOLEAN, raises \in BOOLEAN :
               IF found /\ ~raises
               THEN /\ hz_page' = "target"
                    /\ hz_clicked' = TRUE
                    /\ hz_pc' = "wait_target"
               ELSE hz_pc' = "returned" /\ UNCHANGED <<hz_page, hz_clicked>>
    /\ UNCHANGED <<hz_links, hz_left, notHumanizeVars>>

\* Line 137: page.wait_for_load_state("domcontentloaded", timeout=10000);
\* its timeout goes to the except of line 148.
HumanizeWaitTarget ==
    /\ hz_pc = "wait_target"
    /\ \E raises \in BOOLEAN :
          hz_pc' = IF raises THEN "returned" ELSE "read"
    /\ UNCHANGED <<hz_links, hz_left, hz_page, hz_clicked, notHumanizeVars>>

\* Lines 138-142: the reading time and the scroll within the target.
HumanizeRead ==
    /\ hz_pc = "read"
    /\ \E raises \in BOOLEAN :
          hz_pc' = IF raises THEN "returned" ELSE "go_back"
    /\ UNCHANGED <<hz_links, hz_left, hz_page, hz_clicked, notHumanizeVars>>

\* Line 144: page.go_back(). When it raises the page is where the failed
\* navigation left it.
HumanizeGoBack ==
    /\ hz_pc = "go_back"
    /\ \/ hz_page' = "results" /\ hz_pc' = "wait_back"
       \/ \E left \in {"results", "target"} :
             hz_page' = left /\ hz_pc' = "returned"
    /\ UNCHANGED <<hz_links, hz_left, hz_clicked, notHumanizeVars>>

\* Lines 145-146: the load wait after go_back, and the return.
HumanizeWaitBack ==
    /\ hz_pc = "wait_back"
    /\ \E raises \in BOOLEAN : hz_pc' = "returned"
    /\ UNCHANGED <<hz_links, hz_left, hz_page, hz_clicked, notHumanizeVars>>

\* The caller goes on after the return.
HumanizeDone ==
    /\ hz_pc = "returned"
    /\ hz_pc' = "idle"
    /\ UNCHANGED <<hz_links, hz_left, hz_page, hz_clicked, notHumanizeVars>>

\* ------------------------------------------------------------------------
\* flask_app.py: fetch_google_results and the storage-state file auth.json
\*
\* The calls run on the threads of the server. browser.new_context with
\* storage_state="auth.json" reads the file and parses it as JSON;
\* context.storage_state(path="auth.json") opens the file for writing, which
\* truncates it, and then writes the state.

\* A call: where it is, the storage_state it passes, what the file held
\* when new_context read it ("unread" before), its context, whether it has
\* navigated, and what it returned.
FetchCall(pc, storage_state, seen, context, navigated, returned) ==
    [pc |-> pc, storage_state |-> storage_state, seen |-> seen,
     context |-> context, navigated |-> navigated, returned |-> returned]

IdleCall == FetchCall("idle", None, "unread", "none", FALSE, "nothing")

\* A file new_context can load: it holds a complete JSON document.
Readable(file) == file \in {"valid", "stale"}

\* Lines 159-185: the call begins; with probability 0.7 it passes auth.json
\* when os.path.exists finds it.
AuthChoose(t) ==
    /\ fa[t].pc = "idle"
    /\ \E reuse \in BOOLEAN :
          fa' = [fa EXCEPT ![t] =
                    FetchCall("context",
                              IF reuse /\ auth_json # "absent"
                              THEN Some("auth.json") ELSE None,
                              "unread", "none", FALSE, "nothing")]
    /\ UNCHANGED <<auth_json, notAuthVars>>

\* Lines 187-195: browser.new_context. Without storage_state the context is
\* anonymous. With it the file is read now; a file that cannot be parsed
\* makes new_context raise, and the handler of line 335 returns [].
AuthNewContext(t) ==
    /\ fa[t].pc = "context"
    /\ IF fa[t].storage_state = None
       THEN fa' = [fa EXCEPT ![t].pc = "navigate",
                             ![t].context = "anonymous"]
       ELSE IF Readable(auth_json)
            THEN fa' = [fa EXCEPT ![t].pc = "navigate",
                                  ![t].seen = auth_json,
                                  ![t].context = "restored"]
            ELSE fa' = [fa EXCEPT ![t].pc = "returned",
                                  ![t].seen = auth_json,
                                  ![t].returned = "empty"]
    /\ UNCHANGED <<auth_json, notAuthVars>>

\* Lines 204-324: the navigation, the block test and the extraction. A
\* failed navigation and a block page return [].
AuthNavigate(t) ==
    /\ fa[t].pc = "navigate"
    /\ \E ok \in BOOLEAN :
          IF ok
          THEN fa' = [fa EXCEPT ![t].pc = "save", ![t].navigated = TRUE]
          ELSE fa' = [fa EXCEPT ![t].pc = "returned",
                                ![t].returned = "empty"]
    /\ UNCHANGED <<auth_json, notAuthVars>>

\* Line 328: context.storage_state(path="auth.json") opens the file.
AuthSaveOpen(t) ==
    /\ fa[t].pc = "save"
    /\ \/ /\ auth_json' = "partial"
          /\ fa' = [fa EXCEPT ![t].pc = "writing"]
       \/ /\ UNCHANGED auth_json
          /\ fa' = [fa EXCEPT ![t].pc = "returned", ![t].returned = "items"]
    /\ UNCHANGED notAuthVars

\* Lines 328-333: the write ends, or fails and is logged; the items are
\* returned.
AuthSaveWrite(t) ==
    /\ fa[t].pc = "writing"
    /\ \E ok \in BOOLEAN :
          auth_json' = IF ok THEN "valid" ELSE auth_json
    /\ fa' = [fa EXCEPT ![t].pc = "returned", ![t].returned = "items"]
    /\ UNCHANGED notAuthVars

\* The caller takes the list; the thread serves its next request.
AuthDone(t) ==
    /\ fa[t].pc = "returned"
    /\ fa' = [fa EXCEPT ![t] = IdleCall]
    /\ UNCHANGED <<auth_json, notAuthVars>>

\* The cookies of a saved state expire.
AuthExpire ==
    /\ auth_json = "valid"
    /\ auth_json' = "stale"
    /\ UNCHANGED <<fa, notAuthVars>>

\* ------------------------------------------------------------------------
\* Specifications

CacheStart ==
    /\ CACHE = << >>
    /\ clock = 0
    /\ call = [q |-> <<>>, src |-> "none", resp |-> <<>>, code |-> 0,
               prev |-> NoCall, flip |-> 0]
    /\ last = [q \in Queries |-> NoCall]

ScrapeStart ==
    /\ endpoint_index = 0
    /\ attempts = <<>>
    /\ parsed = None
    /\ ret = None
    /\ status = "running"

FetchStart ==
    /\ fg_pc = "start"
    /\ fg_page = None
    /\ fg_blocked = FALSE
    /\ fg_items = <<>>
    /\ fg_ret = None
    /\ fg_timed_out = FALSE

DdgStart ==
    /\ ddg_pc = "start"
    /\ ddg_calls = <<>>
    /\ ddg_errors = <<>>
    /\ ddg_page = None
    /\ ddg_ret = None

\* ------------------------------------------------------------------------
\* index.py: the error counter and /health
\*
\* app.run(threaded=True) of line 495 handles each request on a thread of
\* its own. update_system_stats('error') is called by the 400, 503 and 500
\* branches of /search (lines 143, 147, 170) and /classify (lines 184, 191,
\* 216). Its statement _system_status['errors'] += 1 reads the count, adds
\* one and stores the sum, with no lock around the three.
ErrorThreshold == 10

MaxErrorResponses == 12

\* Lines 68-92: the status of get_system_health.
get_system_health(stats, loaded) ==
    IF ~loaded THEN "degraded"
    ELSE IF stats.errors > ErrorThreshold THEN "unhealthy"
    ELSE "healthy"

\* Lines 280-285: the status code of /health.
health_check(stats, loaded) ==
    IF get_system_health(stats, loaded) = "healthy" THEN HTTP_OK ELSE 503

\* The threads that have read the count and not stored it yet.
Updating == { t \in Threads : rq[t].pc = "read" }

\* Line 66, first half: a request of /search or /classify that ends in a
\* 400, 503 or 500 reads _system_status['errors'].
StatsRead(t) ==
    /\ rq[t].pc = "idle"
    /\ error_responses + Cardinality(Updating) < MaxErrorResponses
    /\ rq' = [rq EXCEPT ![t] = [pc |-> "read", seen |-> system_status.errors]]
    /\ UNCHANGED <<h_app, h_loaded, h_pc, h_query, h_calls, system_status,
                   h_response, error_responses, health, notHandlerVars>>

\* Line 66, second half: the sum is stored, and the response is sent.
StatsWrite(t) ==
    /\ rq[t].pc = "read"
    /\ system_status' = [system_status EXCEPT !.errors = rq[t].seen + 1]
    /\ error_responses' = error_responses + 1
    /\ rq' = [rq EXCEPT ![t] = [pc |-> "idle", seen |-> 0]]
    /\ UNCHANGED <<h_app, h_loaded, h_pc, h_query, h_calls, h_response,
                   health, notHandlerVars>>

\* Lines 280-285: a /health request.
HealthCheck ==
    /\ health' = health_check(system_status, h_loaded)
    /\ UNCHANGED <<h_app, h_loaded, h_pc, h_query, h_calls, system_status,
                   h_response, rq, error_responses, notHandlerVars>>

HandlerStart ==
    /\ h_app = "none"
    /\ h_loaded = TRUE
    /\ h_pc = "idle"
    /\ h_query = <<>>
    /\ h_calls = 0
    /\ system_status = [search_requests |-> 0, errors |-> 0]
    /\ h_response = NoResponse
    /\ rq = [t \in Threads |-> [pc |-> "idle", seen |-> 0]]
    /\ error_responses = 0
    /\ health = 0

ThreadStart == th = [t \in Threads |-> IdleThread]

BrowserStart ==
    /\ _BROWSER = None
    /\ _PLAYWRIGHT = None
    /\ launched = <<>>
    /\ bt = [t \in Threads |-> Caller("idle", None, None)]

\* ------------------------------------------------------------------------
\* emotion_classifier.py: load_model under its concurrent callers
\*
\* load_model is called by the thread started at import (_background_load,
\* lines 1065-1072), by the thread startup of index.py starts
\* (load_emotion_model, index.py lines 95-106 and 462-470) and by
\* classify_query on a request thread (line 945). It takes no lock: the test
\* of _model_loaded, the loads and the assignment of the flag are separate
\* steps of each caller.
Loaders == {"background", "startup", "on_demand"}

LoadCall(pc, returned) == [pc |-> pc, returned |-> returned]

\* Lines 734-735: the test of the flag.
LoadTest(c) ==
    /\ ld[c].pc = "idle"
    /\ ld' = [ld EXCEPT ![c] = IF _model_loaded
                                THEN LoadCall("done", Some(TRUE))
                                ELSE LoadCall("loading", None)]
    /\ UNCHANGED <<_model_loaded, loads, cq_pc, cq_text, cq_emotions,
                   cq_result, notClassifyVars>>

\* Lines 737-765: the initialization. It assigns the tokenizer and the
\* model from from_pretrained, or raises (no torch, no transformers, neither
\* model obtainable).
LoadInitialize(c) ==
    /\ ld[c].pc = "loading"
    /\ \E outcome \in LoadOutcomes :
          loads' = IF outcome = "distilbert" THEN loads + 1 ELSE loads
    /\ ld' = [ld EXCEPT ![c] = LoadCall("initialized", None)]
    /\ UNCHANGED <<_model_loaded, cq_pc, cq_text, cq_emotions, cq_result,
                   notClassifyVars>>

\* Lines 767-777: the flag is set, after the loads or in the handler, and
\* the call returns True.
LoadReturn(c) ==
    /\ ld[c].pc = "initialized"
    /\ _model_loaded' = TRUE
    /\ ld' = [ld EXCEPT ![c] = LoadCall("done", Some(TRUE))]
    /\ UNCHANGED <<loads, cq_pc, cq_text, cq_emotions, cq_result,
                   notClassifyVars>>

LoadStart ==
    /\ ld = [c \in Loaders |-> LoadCall("idle", None)]
    /\ loads = 0

ClassifyStart ==
    /\ _model_loaded = FALSE
    /\ cq_pc = "idle"
    /\ cq_text = NoText
    /\ cq_emotions = [k \in {} |-> 0]
    /\ cq_result = None
    /\ LoadStart

ExecuteStart ==
    /\ ex_pc = "idle"
    /\ ex_code = <<>>
    /\ ex_temp_dir = "none"
    /\ ex_file = None
    /\ ex_process = None
    /\ ex_response = 0

HumanizeStart ==
    /\ hz_pc = "idle"
    /\ hz_links = 0
    /\ hz_left = 0
    /\ hz_page = "results"
    /\ hz_clicked = FALSE

\* ------------------------------------------------------------------------
\* scrape_ddg_html and the file ddg_debug.html
\*
\* Both scrapers write response.text to ddg_debug.html with open(..., 'w')
\* inside the try that also holds the extraction (search_engine.py lines
\* 114-115, simple_ddg_scraper.py lines 35-36). Two runs of the call receive
\* the same responses; in one of them every write succeeds, in the other a
\* write may raise (a working directory that is not writable, a full disk).

\* What the call does after the attempt a on an endpoint, is_last telling
\* whether it was the last endpoint: the list it returns, or None when it
\* goes on to the next endpoint.
endpoint_return(a, is_last) ==
    IF after_attempt(a.outcome) = "return" THEN Some(a.results)
    ELSE IF is_last THEN Some(<<>>)
    ELSE None

\* simple_ddg_scraper.py: one attempt, whose handler returns [].
simple_return(a) ==
    IF simple_after(a.outcome) = "return" THEN Some(a.results)
    ELSE Some(<<>>)

\* search_engine.py lines 80-208: one endpoint, in both runs.
DumpEndpoint ==
    /\ impl = "search_engine"
    /\ dd_ret = None
    /\ dd_index < NumEndpoints
    /\ \E r1 \in Responses :
       \E r2 \in (IF r1.kind = "ok" /\ BotTable[r1.page]
                  THEN Responses ELSE {r1}) :
       \E write_ok \in (IF fetch_response(r1, r2).failed
                        THEN {TRUE} ELSE BOOLEAN) :
          LET is_last == dd_index + 1 = NumEndpoints IN
          /\ dd_ret' = endpoint_return(
                           try_endpoint(r1, r2, write_ok, max_results), is_last)
          /\ dd_clean' = IF dd_clean # None THEN dd_clean
                         ELSE endpoint_return(
                                  try_endpoint(r1, r2, TRUE, max_results),
                                  is_last)
          /\ dd_index' = dd_index + 1
    /\ UNCHANGED notDumpVars

\* simple_ddg_scraper.py lines 14-110: the call, in both runs.
DumpSimple ==
    /\ impl = "simple_ddg_scraper"
    /\ dd_ret = None
    /\ \E r1 \in Responses :
       \E write_ok \in (IF r1.kind = "ok" THEN BOOLEAN ELSE {TRUE}) :
          /\ dd_ret' = simple_return(simple_try(r1, write_ok, max_results))
          /\ dd_clean' = simple_return(simple_try(r1, TRUE, max_results))
          /\ dd_index' = dd_index + 1
    /\ UNCHANGED notDumpVars

DumpStart ==
    /\ dd_index = 0
    /\ dd_ret = None
    /\ dd_clean = None

AuthStart ==
    /\ auth_json = "absent"
    /\ fa = [t \in Threads |-> IdleCall]

\* The /search handler of flask_app.py, serving one request after another.
InitCache ==
    /\ CacheStart
    /\ ScrapeStart
    /\ FetchStart
    /\ DdgStart
    /\ HandlerStart
    /\ ThreadStart
    /\ BrowserStart
    /\ ClassifyStart
    /\ ExecuteStart
    /\ HumanizeStart
    /\ AuthStart
    /\ DumpStart
    /\ impl = "none"
    /\ max_results = 0

NextCache == Search \/ Idle

SpecCache == InitCache /\ [][NextCache]_vars

\* One call of scrape_ddg_html, of either module, with any max_results.
InitScrape ==
    /\ CacheStart
    /\ ScrapeStart
    /\ FetchStart
    /\ DdgStart
    /\ HandlerStart
    /\ ThreadStart
    /\ BrowserStart
    /\ ClassifyStart
    /\ ExecuteStart
    /\ HumanizeStart
    /\ AuthStart
    /\ DumpStart
    /\ impl \in {"search_engine", "simple_ddg_scraper"}
    /\ max_results \in 0..MaxN

NextScrape == TryEndpoint \/ SimpleScrape

SpecScrape == InitScrape /\ [][NextScrape]_vars

\* Every request carries timeout=20 and every sleep is bounded, so an
\* iteration that has begun ends.
SpecScrapeLive == SpecScrape /\ WF_vars(NextScrape)

\* One call of fetch_google_results.
InitFetch ==
    /\ CacheStart
    /\ ScrapeStart
    /\ FetchStart
    /\ DdgStart
    /\ HandlerStart
    /\ ThreadStart
    /\ BrowserStart
    /\ ClassifyStart
    /\ ExecuteStart
    /\ HumanizeStart
    /\ AuthStart
    /\ DumpStart
    /\ impl = "none"
    /\ max_results = 0

NextFetch ==
    \/ Launch
    \/ Navigate
    \/ CheckBlocks
    \/ WaitForResults
    \/ ExtractItems
    \/ SaveAndReturn

SpecFetch == InitFetch /\ [][NextFetch]_vars

\* One call of ddg_search.
InitDdg ==
    /\ CacheStart
    /\ ScrapeStart
    /\ FetchStart
    /\ DdgStart
    /\ HandlerStart
    /\ ThreadStart
    /\ BrowserStart
    /\ ClassifyStart
    /\ ExecuteStart
    /\ HumanizeStart
    /\ AuthStart
    /\ DumpStart
    /\ impl = "ddg_scraper"
    /\ max_results \in 0..MaxN

NextDdg == DdgHtmlSearch \/ DdgRequestsSearch

SpecDdg == InitDdg /\ [][NextDdg]_vars

\* One request to the /search handler of index.py or api_server.py.
InitHandler ==
    /\ CacheStart
    /\ ScrapeStart
    /\ FetchStart
    /\ DdgStart
    /\ HandlerStart
    /\ ThreadStart
    /\ BrowserStart
    /\ ClassifyStart
    /\ ExecuteStart
    /\ HumanizeStart
    /\ AuthStart
    /\ DumpStart
    /\ impl = "none"
    /\ max_results = 0

NextHandler ==
    \/ HandlerReceive
    \/ TryEndpoint
    \/ SimpleScrape
    \/ HandlerRespond

SpecHandler == InitHandler /\ [][NextHandler]_vars

\* The /search handler of flask_app.py on concurrent request threads.
InitThreads ==
    /\ CacheStart
    /\ ScrapeStart
    /\ FetchStart
    /\ DdgStart
    /\ HandlerStart
    /\ ThreadStart
    /\ BrowserStart
    /\ ClassifyStart
    /\ ExecuteStart
    /\ HumanizeStart
    /\ AuthStart
    /\ DumpStart
    /\ impl = "none"
    /\ max_results = 0

NextThreads ==
    \/ \E t \in Threads :
          \/ ThreadBegin(t)
          \/ ThreadGet(t)
          \/ ThreadAge(t)
          \/ ThreadPop(t)
          \/ ThreadFetch(t)
          \/ ThreadSet(t)
    \/ Idle

SpecThreads == InitThreads /\ [][NextThreads]_vars

\* Threads that call get_browser and fetch_google_results.
InitBrowser ==
    /\ CacheStart
    /\ ScrapeStart
    /\ FetchStart
    /\ DdgStart
    /\ HandlerStart
    /\ ThreadStart
    /\ BrowserStart
    /\ ClassifyStart
    /\ ExecuteStart
    /\ HumanizeStart
    /\ AuthStart
    /\ DumpStart
    /\ impl = "none"
    /\ max_results = 0

NextBrowser ==
    \/ \E t \in Threads :
          \/ GetBrowserCall(t)
          \/ GetBrowserTest(t)
          \/ GetBrowserStart(t)
          \/ GetBrowserLaunch(t)
          \/ FetchLaunch(t)
          \/ FetchClose(t)
    \/ Disconnect

SpecBrowser == InitBrowser /\ [][NextBrowser]_vars

\* classify_query, called again and again with a text and with what
\* get_distilbert_emotions returns for it.
InitClassify ==
    /\ CacheStart
    /\ ScrapeStart
    /\ FetchStart
    /\ DdgStart
    /\ HandlerStart
    /\ ThreadStart
    /\ BrowserStart
    /\ _model_loaded = FALSE
    /\ cq_pc = "idle"
    /\ cq_text \in Texts
    /\ cq_emotions \in EmotionSamples
    /\ cq_result = None
    /\ LoadStart
    /\ ExecuteStart
    /\ HumanizeStart
    /\ AuthStart
    /\ DumpStart
    /\ impl = "none"
    /\ max_results = 0

NextClassify == ClassifyCall \/ ClassifyQuery

SpecClassify == InitClassify /\ [][NextClassify]_vars

\* One POST /execute request, from the handler's entry to its response.
InitExecute ==
    /\ CacheStart
    /\ ScrapeStart
    /\ FetchStart
    /\ DdgStart
    /\ HandlerStart
    /\ ThreadStart
    /\ BrowserStart
    /\ ClassifyStart
    /\ ex_pc = "received"
    /\ ex_code \in Codes
    /\ ex_temp_dir = "none"
    /\ ex_file = None
    /\ ex_process = None
    /\ ex_response = 0
    /\ HumanizeStart
    /\ AuthStart
    /\ DumpStart
    /\ impl = "none"
    /\ max_results = 0

NextExecute ==
    \/ ExecuteReceive
    \/ ExecuteMkdtemp
    \/ ExecuteWrite
    \/ ExecutePopen
    \/ ExecuteRespond

SpecExecute == InitExecute /\ [][NextExecute]_vars

\* The browser pool used by one thread: calls of get_browser and of
\* cleanup_browser one after another, and disconnects at any time.
PoolThread == "t1"

InitPool ==
    /\ CacheStart
    /\ ScrapeStart
    /\ FetchStart
    /\ DdgStart
    /\ HandlerStart
    /\ ThreadStart
    /\ BrowserStart
    /\ ClassifyStart
    /\ ExecuteStart
    /\ HumanizeStart
    /\ AuthStart
    /\ DumpStart
    /\ impl = "none"
    /\ max_results = 0

NextPool ==
    \/ GetBrowserCall(PoolThread)
    \/ GetBrowserTest(PoolThread)
    \/ GetBrowserStart(PoolThread)
    \/ GetBrowserLaunch(PoolThread)
    \/ CleanupBrowser(PoolThread)
    \/ Disconnect

SpecPool == InitPool /\ [][NextPool]_vars

\* Calls of _humanize, one after another.
InitHumanize ==
    /\ CacheStart
    /\ ScrapeStart
    /\ FetchStart
    /\ DdgStart
    /\ HandlerStart
    /\ ThreadStart
    /\ BrowserStart
    /\ ClassifyStart
    /\ ExecuteStart
    /\ HumanizeStart
    /\ AuthStart
    /\ DumpStart
    /\ impl = "none"
    /\ max_results = 0

NextHumanize ==
    \/ HumanizeCall
    \/ HumanizeMove
    \/ HumanizeScroll
    \/ HumanizeHover
    \/ HumanizeClick
    \/ HumanizeWaitTarget
    \/ HumanizeRead
    \/ HumanizeGoBack
    \/ HumanizeWaitBack
    \/ HumanizeDone

SpecHumanize == InitHumanize /\ [][NextHumanize]_vars

\* Concurrent calls of fetch_google_results and the file they share.
InitAuth ==
    /\ CacheStart
    /\ ScrapeStart
    /\ FetchStart
    /\ DdgStart
    /\ HandlerStart
    /\ ThreadStart
    /\ BrowserStart
    /\ ClassifyStart
    /\ ExecuteStart
    /\ HumanizeStart
    /\ AuthStart
    /\ DumpStart
    /\ impl = "none"
    /\ max_results = 0

NextAuth ==
    \/ \E t \in Threads :
          \/ AuthChoose(t)
          \/ AuthNewContext(t)
          \/ AuthNavigate(t)
          \/ AuthSaveOpen(t)
          \/ AuthSaveWrite(t)
          \/ AuthDone(t)
    \/ AuthExpire

SpecAuth == InitAuth /\ [][NextAuth]_vars

InitDump ==
    /\ CacheStart
    /\ ScrapeStart
    /\ FetchStart
    /\ DdgStart
    /\ HandlerStart
    /\ ThreadStart
    /\ BrowserStart
    /\ ClassifyStart
    /\ ExecuteStart
    /\ HumanizeStart
    /\ AuthStart
    /\ DumpStart
    /\ impl \in {"search_engine", "simple_ddg_scraper"}
    /\ max_results \in 0..MaxN

NextDump == DumpEndpoint \/ DumpSimple

SpecDump == InitDump /\ [][NextDump]_vars

InitLoad ==
    /\ CacheStart
    /\ ScrapeStart
    /\ FetchStart
    /\ DdgStart
    /\ HandlerStart
    /\ ThreadStart
    /\ BrowserStart
    /\ ClassifyStart
    /\ ExecuteStart
    /\ HumanizeStart
    /\ AuthStart
    /\ DumpStart
    /\ impl = "none"
    /\ max_results = 0

NextLoad ==
    \E c \in Loaders :
       \/ LoadTest(c)
       \/ LoadInitialize(c)
       \/ LoadReturn(c)

SpecLoad == InitLoad /\ [][NextLoad]_vars

InitStats ==
    /\ CacheStart
    /\ ScrapeStart
    /\ FetchStart
    /\ DdgStart
    /\ HandlerStart
    /\ ThreadStart
    /\ BrowserStart
    /\ ClassifyStart
    /\ ExecuteStart
    /\ HumanizeStart
    /\ AuthStart
    /\ DumpStart
    /\ impl = "none"
    /\ max_results = 0

NextStats ==
    \/ \E t \in Threads : StatsRead(t) \/ StatsWrite(t)
    \/ HealthCheck

SpecStats == InitStats /\ [][NextStats]_vars

\* ------------------------------------------------------------------------
\* Claims

\* The entry of q is within the freshness window.
Fresh(q) == q \in DOMAIN CACHE /\ clock - CACHE[q].ts <= CACHE_TTL_SECONDS

\* C1: a /search call whose query has an entry of age <= CACHE_TTL_SECONDS
\* returns the list the previous call with that query returned, and it does
\* not invoke fetch_google_results.
C1_SecondCallServedFromCache ==
    [][\A q \in Queries :
          (Fresh(q) /\ call'.flip # call.flip /\ call'.q = q)
              => (call'.src = "cache" /\ call'.resp = last[q].resp)]_vars

C1_Witness ==
    /\ call.src = "cache"
    /\ call.prev.src = "fetch"
    /\ call.q \in DOMAIN CACHE
    /\ clock - CACHE[call.q].ts = CACHE_TTL_SECONDS

\* C2: every entry of the cache holds a non-empty result list.
C2_NoEmptyEntry == \A q \in DOMAIN CACHE : CACHE[q].results # <<>>

C2_Witness ==
    /\ call.src = "fetch"
    /\ call.resp = <<>>
    /\ call.q \notin DOMAIN CACHE
    /\ DOMAIN CACHE # {}

\* C3: after a call whose retrieval yielded no result, the next call with
\* the same query invokes fetch_google_results again, and no response that
\* comes from the cache is the empty list.
C3_EmptyIsRetried ==
    /\ call.src = "cache" => call.resp # <<>>
    /\ (call.prev.src = "fetch" /\ call.prev.resp = <<>>) => call.src = "fetch"

C3_Witness ==
    /\ call.prev.src = "fetch"
    /\ call.prev.resp = <<>>
    /\ call.src = "fetch"
    /\ call.resp # <<>>

\* The containers scrape_ddg_html examines on a page.
Examined(page) ==
    Slice(IF impl = "search_engine" THEN result_containers(page)
          ELSE simple_result_containers(page), max_results)

\* C4: scrape_ddg_html(query, N), N >= 0, returns at most N records.
C4_AtMostMaxResults == ret # None => Len(ret[1]) <= max_results

C4_Witness ==
    /\ status = "returned"
    /\ parsed # None
    /\ Len(PageOf(parsed[1]).divs) > max_results
    /\ max_results >= 1
    /\ Len(ret[1]) = max_results

\* A url that starts with a recognized URI scheme.
Absolute(url) ==
    StartsWith(url, S_http_scheme) \/ StartsWith(url, S_https_scheme)

\* C5: every record scrape_ddg_html returns has a non-empty title and a url
\* that starts with a recognized URI scheme and is not a redirect href.
C5_RecordsWellFormed ==
    ret # None =>
        \A i \in DOMAIN ret[1] :
            /\ ret[1][i].title # <<>>
            /\ Absolute(ret[1][i].url)
            /\ ~Contains(ret[1][i].url, S_uddg_path)

\* The destination a redirect href carries: its uddg parameter, decoded.
Destination(href) ==
    LET start == Find(href, S_uddg_path) + Len(S_uddg_path) IN
    unquote(Before(SubSeq(href, start, Len(href)), "&"))

\* A container whose one link is a redirect href with a destination, under
\* a title of at least the minimum length.
RedirectContainer(d) ==
    /\ Len(d.links) = 1
    /\ Contains(d.links[1].href, S_uddg_path)
    /\ Destination(d.links[1].href) # <<>>
    /\ Len(Strip(d.links[1].text)) >= MinTitleLen

\* C6: for every examined container whose link is a redirect href, the
\* call returns a record whose url is the decoded destination, and no
\* record whose url is a redirect href.
C6_RedirectResolved ==
    (status = "returned" /\ parsed # None) =>
        /\ \A i \in DOMAIN Examined(PageOf(parsed[1])) :
              LET d == Examined(PageOf(parsed[1]))[i] IN
              RedirectContainer(d) =>
                  \E k \in DOMAIN ret[1] :
                      /\ ret[1][k].title = Strip(d.links[1].text)
                      /\ ret[1][k].url = Destination(d.links[1].href)
        /\ \A k \in DOMAIN ret[1] : ~Contains(ret[1][k].url, S_uddg_path)

\* The number of endpoints a call tries at most.
EndpointsOf(m) == IF m = "search_engine" THEN NumEndpoints ELSE 1

\* C9: when every endpoint attempt has failed (an exception of the request,
\* of the status check or of the debug write, a bot detection page, or no
\* record), the call has returned the empty list and raised nothing.
C9_AllFailedReturnsEmpty ==
    (/\ Len(attempts) = EndpointsOf(impl)
     /\ \A i \in DOMAIN attempts : attempts[i].outcome # "records")
        => (status = "returned" /\ ret = Some(<<>>))

C9_Witness ==
    /\ impl = "search_engine"
    /\ status = "returned"
    /\ ret = Some(<<>>)
    /\ Len(attempts) = NumEndpoints
    /\ attempts[1].outcome = "exception"
    /\ attempts[2].outcome = "bot"
    /\ attempts[3].outcome = "empty"

\* C10: scrape_ddg_html of search_engine.py returns the records of one
\* response, that of the first endpoint whose attempt yields a record; that
\* attempt is the last one of the call.
C10_FirstSuccessWins ==
    impl = "search_engine" =>
        /\ \A i \in DOMAIN attempts :
              attempts[i].outcome = "records" =>
                  /\ i = Len(attempts)
                  /\ status = "returned"
                  /\ parsed # None
                  /\ ret = Some(ExtractTable[parsed[1]][max_results])
        /\ (ret # None /\ ret # Some(<<>>)) =>
              attempts[Len(attempts)].outcome = "records"

C10_Witness ==
    /\ impl = "search_engine"
    /\ status = "returned"
    /\ Len(attempts) = 2
    /\ attempts[1].outcome = "empty"
    /\ attempts[2].outcome = "records"
    /\ Len(ret[1]) = 2

\* The html holds a phrase of the block list, in any letter case.
HoldsBlockPhrase(html) ==
    \E i \in DOMAIN blocks : Contains(Lower(html), Lower(blocks[i]))

\* C7: a call whose rendered page holds a phrase of the block list, in any
\* letter case, is classified blocked and never reaches the extraction.
C7_BlockPhraseBlocks ==
    (fg_page # None /\ HoldsBlockPhrase(content(RenderedOf(fg_page[1])))) =>
        /\ fg_pc \notin {"wait", "extract", "save"}
        /\ fg_pc = "returned" => (fg_blocked /\ fg_ret = Some(<<>>))

\* The exception is among those raised inside ddg_search.
Raised(e) == \E i \in DOMAIN ddg_errors : ddg_errors[i] = e

\* The strategy is among those ddg_search has called.
Called(f) == \E i \in DOMAIN ddg_calls : ddg_calls[i] = f

\* C8: once the HTTP fetch of ddg_search has raised a network error, the call
\* does not end with an exception, and it ends only after
\* _ddg_playwright_search has been called.
C8_NetworkErrorFallsBack ==
    Raised("ConnectionError") =>
        /\ ddg_pc # "raised"
        /\ ddg_pc = "returned" => Called("_ddg_playwright_search")

RECURSIVE SumRequests(_)
SumRequests(as) ==
    IF as = <<>> THEN 0 ELSE Head(as).requests + SumRequests(Tail(as))

\* The most requests one endpoint receives: the first and the retry with the
\* other kind of user agent.
MaxRequestsPerEndpoint == 2

AttemptsBounded ==
    /\ Len(attempts) <= NumEndpoints
    /\ \A i \in DOMAIN attempts :
          /\ attempts[i].endpoint = i - 1
          /\ attempts[i].requests \in 1..MaxRequestsPerEndpoint
    /\ SumRequests(attempts) <= NumEndpoints * MaxRequestsPerEndpoint

\* C11: a call of scrape_ddg_html of search_engine.py ends; it attempts the
\* endpoints once each, in list order, sends at most two requests to an
\* endpoint and so at most six in all.
C11_TerminatesWithinSixRequests ==
    /\ [](impl = "search_engine" => AttemptsBounded)
    /\ <>(status # "running")

C11_Witness ==
    /\ impl = "search_engine"
    /\ status = "returned"
    /\ Len(attempts) = NumEndpoints
    /\ SumRequests(attempts) = NumEndpoints * MaxRequestsPerEndpoint

\* C12: a request to /search with a missing, empty or whitespace-only q is
\* answered with a client error. Stated for the handler of flask_app.py;
\* the handlers of index.py and api_server.py answer 400 in HandlerReceive.
C12_EmptyQueryRejected ==
    call.src = "empty_query" => call.code \in 400..499

\* C13: a request to /search of index.py or api_server.py with a non-empty
\* query is answered with a 200 response that carries a result list; when
\* the retrieval failed the list is empty, and the answer is never a 4xx or
\* 5xx response.
C13_RetrievalFailureAnswered200 ==
    (h_pc = "responded" /\ h_query # <<>>) =>
        /\ h_response.code = HTTP_OK
        /\ h_response.kind = "results"
        /\ (\A i \in DOMAIN attempts : attempts[i].outcome # "records")
              => h_response.results = <<>>

\* The candidate containers of the page the returning call examined.
ContainersExamined ==
    IF impl = "search_engine"
    THEN result_containers(PageOf(parsed[1]))
    ELSE simple_result_containers(PageOf(parsed[1]))

\* The container holds an outbound http link whose title has the minimum
\* length.
WellFormed(d) ==
    /\ main_link(d) # None
    /\ Len(Strip(main_link(d)[1].text)) >= MinTitleLen

\* C14: when every candidate container of the page is well-formed,
\* scrape_ddg_html(query, N) returns min(N, number of containers) records,
\* the i-th record made from the i-th container.
C14_ExactlyMinRecords ==
    (/\ impl \in {"search_engine", "simple_ddg_scraper"}
     /\ status = "returned"
     /\ parsed # None
     /\ \A i \in DOMAIN ContainersExamined : WellFormed(ContainersExamined[i]))
    => /\ Len(ret[1]) = Min(max_results, Len(ContainersExamined))
       /\ \A i \in DOMAIN ret[1] :
             ret[1][i].title = Strip(main_link(ContainersExamined[i])[1].text)

\* The step is a call of /search that reads the cache for q.
ReadsCache(q) == call'.flip # call.flip /\ call'.q = q

\* C15: a read of a stored entry reports it present exactly when its age is
\* at most CACHE_TTL_SECONDS; the read of an older entry removes it, so
\* that the key is left absent or holds what the same call fetched; and an
\* entry leaves the cache in no other step.
C15_LazyEviction ==
    [][\A q \in DOMAIN CACHE :
          /\ ReadsCache(q) => (call'.src = "cache" <=> Fresh(q))
          /\ (ReadsCache(q) /\ ~Fresh(q)) =>
                \/ q \notin DOMAIN CACHE'
                \/ CACHE'[q] = [results |-> call'.resp, ts |-> clock']
          /\ q \notin DOMAIN CACHE' => (ReadsCache(q) /\ ~Fresh(q))
          /\ (q \in DOMAIN CACHE' /\ CACHE'[q] # CACHE[q]) =>
                (ReadsCache(q) /\ ~Fresh(q))]_vars

C15_Witness ==
    /\ call.src = "fetch"
    /\ call.prev.resp # <<>>
    /\ call.resp = <<>>
    /\ call.q \notin DOMAIN CACHE
    /\ DOMAIN CACHE # {}

\* C16: get_cached and set_cache of concurrent requests exclude each other:
\* what the pop of get_cached removes is the entry that this get_cached read
\* and found expired, never an entry stored for the query in between.
C16_CacheOperationsAtomic ==
    \A t \in Threads : th[t].popped # None => th[t].popped = th[t].entry

\* The running browser processes that get_browser launched.
PoolProcesses ==
    { b \in DOMAIN launched :
        launched[b].by = "get_browser" /\ launched[b].alive }

\* C17: at most one browser process launched by get_browser exists, whatever
\* the interleaving of the get_browser calls, and none exists while no
\* thread has passed the test of get_browser.
C17_AtMostOnePoolBrowser ==
    /\ Cardinality(PoolProcesses) <= 1
    /\ (_PLAYWRIGHT = None /\ \A t \in Threads : bt[t].pc = "idle")
          => PoolProcesses = {}

\* C18: a fetch_google_results call made after get_browser has returned a
\* handle uses the browser process of that handle, and no browser process
\* is launched by fetch_google_results.
C18_FetchReusesPoolBrowser ==
    \A t \in Threads :
        (bt[t].pc = "fetching" /\ bt[t].handle # None) =>
            /\ bt[t].using = bt[t].handle
            /\ launched[bt[t].using[1]].by = "get_browser"

\* The contract of a value classify_query returns: a confidence in [0, 1]
\* and a profile of exactly the four keys, each in [-1, 1].
ProfileKeys == {"valence", "arousal", "engagement", "regulation"}

WellFormedResult(r) ==
    /\ r.confidence >= 0
    /\ r.confidence <= Unit
    /\ DOMAIN r.psychological_profile = ProfileKeys
    /\ \A k \in ProfileKeys :
          /\ r.psychological_profile[k] >= 0 - Unit
          /\ r.psychological_profile[k] <= Unit

\* The values of the three return statements of classify_query for a text.
ReturnStatements(t, e) == {model_unavailable, analysis_failed, analysis(t, e)}

ContainsAnyCase(code, p) ==
    \E i \in 1..(Len(code) - Len(p) + 1) :
        \A j \in 1..Len(p) :
            code[i + j - 1] = p[j] \/ code[i + j - 1] = UpperChar(p[j])

Dangerous(code) ==
    \E i \in DOMAIN dangerous_patterns :
        ContainsAnyCase(code, dangerous_patterns[i])

\* C20: a POST /execute whose code holds a listed dangerous pattern, in any
\* letter case, is answered 403, and at no point of the request is a
\* temporary directory created, the code written to a file or a subprocess
\* started.
C20_DangerousCodeRejected ==
    Dangerous(ex_code) =>
        /\ ex_temp_dir = "none"
        /\ ex_file = None
        /\ ex_process = None
        /\ ex_pc \in {"received", "responded"}
        /\ ex_pc = "responded" => ex_response = 403

\* A request whose code holds a pattern in capitals or mixed case has been
\* answered 403.
C20_Witness ==
    /\ ex_pc = "responded"
    /\ ex_response = 403
    /\ Dangerous(ex_code)
    /\ \A i \in DOMAIN dangerous_patterns :
          ~Contains(ex_code, dangerous_patterns[i])

\* C21: every record fetch_google_results returns has a non-empty title
\* and an absolute url; a container whose title is empty after the
\* truncation at the sponsored-content marker, or whose href is relative,
\* gives no record.
C21_BrowserRecordsComplete ==
    fg_ret # None =>
        \A i \in DOMAIN fg_ret[1] :
            /\ fg_ret[1][i].title # <<>>
            /\ Absolute(fg_ret[1][i].url)

\* What one container among the examined ones comes to.
Parsed(d) == parse_container(d, impl = "simple_ddg_scraper")

IsRecord(d) == Parsed(d).outcome = "record"

\* The records of the containers that parse, in document order.
RecordsOfParsing(cs) ==
    LET ok == SelectSeq(cs, IsRecord)
    IN  [i \in DOMAIN ok |-> Parsed(ok[i]).item]

\* C22: a fault raised while parsing one container is confined to it: the
\* call returns (the attempt is not an exception), and its records are those
\* of every container among the first max_results that parses, the ones
\* before and the ones after the faulting container alike.
C22_FaultConfined ==
    (status = "returned" /\ parsed # None) =>
        /\ ret[1] = RecordsOfParsing(Examined(PageOf(parsed[1])))
        /\ attempts[Len(attempts)].outcome \in {"records", "empty"}

\* A call returned from a page whose first examined container faulted and
\* whose second one gave the record returned.
C22_Witness ==
    /\ status = "returned"
    /\ parsed # None
    /\ Len(Examined(PageOf(parsed[1]))) >= 2
    /\ Parsed(Examined(PageOf(parsed[1]))[1]).outcome = "fault"
    /\ IsRecord(Examined(PageOf(parsed[1]))[2])
    /\ Len(ret[1]) = 1

\* The step is a return of get_browser to thread t with a handle: the
\* return of line 35 after the launch, or after the test found the stored
\* handle usable.
GetBrowserReturns(t) ==
    /\ bt'[t].pc = "idle"
    /\ bt'[t].handle # None
    /\ bt[t].pc \in {"test", "launch"}

\* C23: in any sequence of get_browser calls, cleanup_browser calls and
\* disconnects, a get_browser call that returns yields the stored handle,
\* which is connected; it has launched a browser exactly when the stored
\* handle was absent or disconnected.
C23_ReturnsConnectedHandle ==
    [][GetBrowserReturns(PoolThread) =>
          /\ bt'[PoolThread].handle = _BROWSER'
          /\ launched'[_BROWSER'[1]].alive
          /\ (Len(launched') > Len(launched))
                <=> (_BROWSER = None \/ ~launched[_BROWSER[1]].alive)]_vars

\* get_browser has returned the handle of a second browser, launched after
\* cleanup_browser or a disconnect ended the first one.
C23_Witness ==
    /\ bt[PoolThread].pc = "idle"
    /\ bt[PoolThread].handle = _BROWSER
    /\ _BROWSER # None
    /\ _BROWSER[1] >= 2
    /\ launched[_BROWSER[1]].alive
    /\ ~launched[1].alive

\* C24: a call of _humanize whose click succeeded returns with the page
\* back on the results page, never on the clicked target.
C24_ReturnsOnResultsPage ==
    (hz_pc = "returned" /\ hz_clicked) => hz_page = "results"

\* C25: a fetch_google_results call is not failed by auth.json: a call
\* that passed the file and found it being written or gone goes on with an
\* anonymous context and navigates, and a call that found it stale goes on
\* as well.
C25_AuthFileNeverFails ==
    \A t \in Threads :
        fa[t].seen # "unread" =>
            fa[t].context = IF Readable(fa[t].seen) THEN "restored"
                            ELSE "anonymous"


\* C26: for the same fetched responses, the list scrape_ddg_html returns is
\* the same whether the writes of ddg_debug.html succeed or fail: the run
\* whose writes may fail returns the list of the run whose writes succeed.
C26_DumpPurelyDiagnostic ==
    dd_ret # None => dd_clean = dd_ret


\* C27: in fetch_google_results a timeout of wait_for_selector is not fatal:
\* after it the call is extracting, saving or has returned, and what it
\* returns is the list of the records of the page it navigated to.
C27_TimeoutNotFatal ==
    fg_timed_out =>
        /\ fg_pc \in {"extract", "save", "returned"}
        /\ ~fg_blocked
        /\ fg_pc = "returned" => fg_ret = Some(ItemsTable[fg_page[1]])

\* The wait timed out and the call returned a record.
C27_Witness ==
    /\ fg_timed_out
    /\ fg_pc = "returned"
    /\ fg_ret # None
    /\ Len(fg_ret[1]) > 0


\* The candidate containers of the page, in document order.
Candidates(page) ==
    IF impl = "search_engine" THEN result_containers(page)
    ELSE simple_result_containers(page)

\* C28: scrape_ddg_html examines only the first max_results candidate
\* containers in document order: the list returned from a page is the
\* records of those among its first max_results candidates that parse,
\* whatever the candidates beyond the cap are.
C28_CapBeforeRejection ==
    (status = "returned" /\ parsed # None) =>
        LET all == Candidates(PageOf(parsed[1]))
            k == IF max_results < Len(all) THEN max_results ELSE Len(all)
        IN  ret[1] = RecordsOfParsing([i \in 1..k |-> all[i]])

\* The call returned fewer than max_results records from a page that has a
\* valid container beyond the cap.
C28_Witness ==
    /\ status = "returned"
    /\ parsed # None
    /\ Len(ret[1]) < max_results
    /\ \E i \in DOMAIN Candidates(PageOf(parsed[1])) :
          /\ i > max_results
          /\ IsRecord(Candidates(PageOf(parsed[1]))[i])


\* C29: the emotion model is initialized at most once per process under the
\* concurrent callers of load_model: the tokenizer and the model are never
\* loaded twice, and every call of load_model that has returned returned
\* True.
C29_ModelLoadedOnce ==
    /\ loads <= 1
    /\ \A c \in Loaders : ld[c].pc = "done" => ld[c].returned = Some(TRUE)


\* C30: the error counter of index.py is incremented by every 400, 503 and
\* 500 response of /search and /classify, so it holds the number of those
\* responses; once more than 10 of them have been sent, /health answers 503.
C30_ErrorsLatchUnhealthy ==
    /\ system_status.errors = error_responses
    /\ error_responses > ErrorThreshold =>
          health_check(system_status, h_loaded) = 503

====
